---------------------------- MODULE Spec2Model ----------------------------
(***************************************************************************)
(* Template store, inheritance resolver and merge engine of AtomGrowth     *)
(* (atomgrowth/core/template_manager.py, atomgrowth/models/recipe.py),     *)
(* the experiment store and the override model of an experiment            *)
(* (atomgrowth/core/experiment_manager.py, atomgrowth/models/experiment.py)*)
(* and the template editor (atomgrowth/ui/views/template_editor.py).       *)
(*                                                                         *)
(* Template ids (uuid4 strings in the program) are the numbers 1, 2, ...   *)
(* handed out in order by nextId; Python's None is the number 0.  Floats   *)
(* are written as the integers they equal (750.0 is 750), float('nan') as *)
(* the number `nan`.  Timestamps are readings of the clock `now`.          *)
(***************************************************************************)
EXTENDS Integers, Sequences, FiniteSets, TLC

VARIABLES
    templates,  \* TemplateManager._templates: id -> RecipeTemplate
    nextId,     \* the next id uuid4() hands out
    now,        \* the reading of datetime.now()
    last,       \* the most recent call of the store: what it was and how it ended
    walk,       \* get_inheritance_chain in progress: the locals of its loop
    experiments, \* ExperimentManager._experiments: id -> Experiment
    images_dir, \* ExperimentManager._images_dir: None or a directory
    editor,     \* TemplateEditorView: _current_template and its parent combo
    experiment, \* an Experiment the override calls are made on
    trail,      \* the last two calls made on experiment, each with the
                \* experiment as it was before the call (a history)
    seen,       \* <<_templates>> as the slots connected to the template
                \* signals (TemplateListView._refresh_tree) read it while the
                \* step just taken emitted, <<>> when it emitted none
    view        \* the ExperimentEditorView: the experiment it edits, the
                \* template label and the parameter fields

vars == <<templates, nextId, now, last, walk,
          experiments, images_dir, editor, experiment, trail, seen, view>>

\* what the template store and the resolver never touch
others == <<experiments, images_dir, editor, experiment, trail, view>>

-----------------------------------------------------------------------------
(* Bounds of the model *)

\* how many templates create_template may make in a run of the store
MaxCreates == 2

\* how many ids a store drawn for the resolver holds at most
MaxTemplates == 3

\* the last reading of the clock
MaxTime == 1

-----------------------------------------------------------------------------
(* recipe.py: the data model *)

None == 0

TemperatureProfile ==
    [ramp_rate_1 |-> 10, hold_temp_1 |-> 300, hold_time_1 |-> 10,
     ramp_rate_2 |-> 5, peak_temp |-> 750, peak_hold_time |-> 15,
     cooling_method |-> "natural", controlled_cool_rate |-> 10]

GasFlow == [ar_flow |-> 100, h2_flow |-> 0, total_flow |-> 100]

PrecursorSetup ==
    [moo3_amount |-> 5, s_amount |-> 100, moo3_position |-> 0,
     s_position |-> -15, moo3_boat_material |-> "alumina",
     s_boat_material |-> "quartz"]

SubstrateInfo ==
    [material |-> "SiO2/Si", oxide_thickness |-> 300, prep_method |-> "piranha",
     orientation |-> "(100)", size |-> "1cm x 1cm"]

\* the empty dict: a function with no keys
EmptyDict == [k \in {} |-> 0]

\* RecipeTemplate(id=id, name=name, description=description) constructed at time t
RecipeTemplate(id, name, description, t) ==
    [id |-> id, name |-> name, description |-> description,
     parent_template_id |-> None,
     created_at |-> t, modified_at |-> t,
     temperature |-> TemperatureProfile, gas_flow |-> GasFlow,
     precursor |-> PrecursorSetup, substrate |-> SubstrateInfo,
     custom_fields |-> EmptyDict, tags |-> <<>>]

\* update_modified that leaves modified_at as it is
update_modified_unstamped(template, t) == template

\* RecipeTemplate.update_modified
update_modified(template, t) == [template EXCEPT !.modified_at = t]


-----------------------------------------------------------------------------
(* template_manager.py: the inheritance chain and the cycle check *)

\* the locals of get_inheritance_chain(template_id) when its loop is entered
ChainStart(template_id) ==
    [pc |-> "loop", target |-> template_id, current_id |-> template_id,
     visited |-> {}, chain |-> <<>>]

\* ChainLoop without `visited.add(current_id)`
ChainLoopNoVisitedAdd(T, st) ==
    IF st.current_id = None THEN [st EXCEPT !.pc = "return"]
    ELSE IF st.current_id \in st.visited THEN [st EXCEPT !.pc = "raise"]
    ELSE IF st.current_id \notin DOMAIN T THEN [st EXCEPT !.pc = "return"]
    ELSE [st EXCEPT !.chain = Append(st.chain, T[st.current_id]),
                    !.current_id = T[st.current_id].parent_template_id]

\* one evaluation of `while current_id:` and, when it holds, of the loop's body
ChainLoop(T, st) ==
    IF st.current_id = None THEN [st EXCEPT !.pc = "return"]
    ELSE IF st.current_id \in st.visited THEN [st EXCEPT !.pc = "raise"]
    ELSE IF st.current_id \notin DOMAIN T
         THEN [st EXCEPT !.pc = "return",
                         !.visited = st.visited \cup {st.current_id}]
    ELSE [st EXCEPT !.visited = st.visited \cup {st.current_id},
                    !.chain = Append(st.chain, T[st.current_id]),
                    !.current_id = T[st.current_id].parent_template_id]

RECURSIVE ChainRun(_, _)
\* the loop run to its end
ChainRun(T, st) ==
    IF st.pc # "loop" THEN st ELSE ChainRun(T, ChainLoop(T, st))

\* get_inheritance_chain(template_id): pc is "return" with the chain, or
\* "raise" for ValueError("Circular inheritance detected")
get_inheritance_chain(T, template_id) == ChainRun(T, ChainStart(template_id))

\* one evaluation of the loop of _would_create_cycle: its locals are
\* current_id and visited; pc ends "True" or "False"
CycleLoop(T, st) ==
    IF st.current_id = None THEN [st EXCEPT !.pc = "False"]
    ELSE IF st.current_id \in st.visited THEN [st EXCEPT !.pc = "True"]
    ELSE IF st.current_id \notin DOMAIN T
         THEN [st EXCEPT !.pc = "False",
                         !.visited = st.visited \cup {st.current_id}]
    ELSE [st EXCEPT !.visited = st.visited \cup {st.current_id},
                    !.current_id = T[st.current_id].parent_template_id]

RECURSIVE CycleRun(_, _)
CycleRun(T, st) ==
    IF st.pc # "loop" THEN st ELSE CycleRun(T, CycleLoop(T, st))

\* _would_create_cycle with visited.add(current_id) before the test
would_create_cycle_add_first(T, template_id, new_parent_id) ==
    CycleRun(T, [pc |-> "loop", current_id |-> new_parent_id,
                 visited |-> {template_id, new_parent_id}]).pc = "True"

\* _would_create_cycle(template_id, new_parent_id)
would_create_cycle(T, template_id, new_parent_id) ==
    CycleRun(T, [pc |-> "loop", current_id |-> new_parent_id,
                 visited |-> {template_id}]).pc = "True"

-----------------------------------------------------------------------------
(* template_manager.py: field path access.  A path is the list of its parts,
   path.split('.'); a value travels with the kind of Python object it is *)

\* fields(TemperatureProfile), fields(GasFlow), ... in declaration order
TemperatureFields ==
    <<"ramp_rate_1", "hold_temp_1", "hold_time_1", "ramp_rate_2", "peak_temp",
      "peak_hold_time", "cooling_method", "controlled_cool_rate">>

GasFlowFields == <<"ar_flow", "h2_flow", "total_flow">>

PrecursorFields ==
    <<"moo3_amount", "s_amount", "moo3_position", "s_position",
      "moo3_boat_material", "s_boat_material">>

SubstrateFields ==
    <<"material", "oxide_thickness", "prep_method", "orientation", "size">>

\* the paths section.f for the fields f of a section, in order
SectionPaths(section, fs) == [i \in 1..Len(fs) |-> <<section, fs[i]>>]

\* get_all_field_paths()
get_all_field_paths ==
    SectionPaths("temperature", TemperatureFields)
    \o SectionPaths("gas_flow", GasFlowFields)
    \o SectionPaths("precursor", PrecursorFields)
    \o SectionPaths("substrate", SubstrateFields)

\* a Python value: what kind of object it is, and the value
Obj(kind, val) == [kind |-> kind, val |-> val]

NoneObj == Obj("None", None)

\* the kind of the attribute `part` of a RecipeTemplate holding v
AttrKind(part, v) ==
    CASE part \in {"temperature", "gas_flow", "precursor", "substrate"} -> "dataclass"
      [] part = "custom_fields" -> "dict"
      [] part = "tags" -> "list"
      [] part = "parent_template_id" /\ v = None -> "None"
      [] OTHER -> "scalar"

\* names hasattr finds on every dict, two of the methods of dict
DictMethods == {"keys", "items"}

\* one turn of the loop of _get_field_value: from current to its member part
\* (hasattr comes first: on a dict it finds the methods of dict, and getattr
\* returns the bound method)
GetPart(current, part) ==
    IF current.kind = "None" THEN NoneObj
    ELSE IF current.kind \in {"RecipeTemplate", "dataclass"}
            /\ part \in DOMAIN current.val
         THEN Obj(IF current.kind = "RecipeTemplate"
                  THEN AttrKind(part, current.val[part]) ELSE "scalar",
                  current.val[part])
    ELSE IF current.kind = "dict"
         THEN IF part \in DictMethods THEN Obj("method", part)
              ELSE IF part \in DOMAIN current.val
              THEN Obj("scalar", current.val[part]) ELSE NoneObj
    ELSE NoneObj

RECURSIVE GetFrom(_, _, _)
\* the loop of _get_field_value from parts[i] on
GetFrom(current, parts, i) ==
    IF i > Len(parts) THEN current
    ELSE GetFrom(GetPart(current, parts[i]), parts, i + 1)

\* _get_field_value(obj, path) for a RecipeTemplate obj
get_field_value(obj, path) == GetFrom(Obj("RecipeTemplate", obj), path, 1)

\* _set_field_value(obj, path, value) for a RecipeTemplate obj and a path of
\* one or two parts: whether it returned True, whether it raised, and obj
\* afterwards (setattr of a method of dict raises AttributeError: the
\* attribute is read-only)
set_field_value(obj, path, value) ==
    LET final_part == path[Len(path)]
        refused == [ok |-> FALSE, raised |-> FALSE, obj |-> obj]
    IN
    IF Len(path) = 1
    THEN IF final_part \in DOMAIN obj
         THEN [ok |-> TRUE, raised |-> FALSE,
               obj |-> [obj EXCEPT ![final_part] = value]]
         ELSE refused
    ELSE IF path[1] \notin DOMAIN obj THEN refused
    ELSE LET current == GetPart(Obj("RecipeTemplate", obj), path[1]) IN
         IF current.kind = "dataclass" /\ final_part \in DOMAIN current.val
         THEN [ok |-> TRUE, raised |-> FALSE,
               obj |-> [obj EXCEPT ![path[1]][final_part] = value]]
         ELSE IF current.kind = "dict" /\ final_part \in DictMethods
         THEN [ok |-> FALSE, raised |-> TRUE, obj |-> obj]
         ELSE IF current.kind = "dict"
         THEN [ok |-> TRUE, raised |-> FALSE,
               obj |-> [obj EXCEPT ![path[1]] = (final_part :> value) @@ current.val]]
         ELSE refused

-----------------------------------------------------------------------------
(* template_manager.py: the merge engine and the resolver *)

\* the elements of a list: set(list)
ToSet(seq) == {seq[i] : i \in 1..Len(seq)}

\* list(set): the elements of S, each once, in any order the hash order gives
ToLists(S) == {l \in [1..Cardinality(S) -> S] : ToSet(l) = S}

\* merge_dataclass where a field base holds is kept
merge_dataclass_base_wins(base, overlay) == base @@ overlay

\* _merge_dataclass(base, overlay): a copy of base with every field of
\* overlay assigned to it
\* (f @@ g is f on the keys of f and g elsewhere)
merge_dataclass(base, overlay) == overlay @@ base

\* dict_update where a key base holds is kept
dict_update_base_wins(base, overlay) == base @@ overlay

\* dict.update: base with every key of overlay assigned to it
dict_update(base, overlay) == overlay @@ base

\* merge_tags as base_tags + overlay_tags
merge_tags_concat(base_tags, overlay_tags) == {base_tags \o overlay_tags}

\* list(set(base_tags) | set(overlay_tags)): the lists it may give
merge_tags(base_tags, overlay_tags) ==
    ToLists(ToSet(base_tags) \cup ToSet(overlay_tags))

\* overlay.description or result.description
merge_description(base_description, overlay_description) ==
    IF overlay_description # "" THEN overlay_description ELSE base_description

\* merge_metadata without `result.created_at = overlay.created_at`
merge_metadata_keeps_created_at(result, overlay) ==
    [result EXCEPT
        !.name = overlay.name,
        !.description = IF overlay.description # "" THEN overlay.description
                        ELSE result.description,
        !.parent_template_id = overlay.parent_template_id,
        !.modified_at = overlay.modified_at]

\* the metadata _merge_templates takes from overlay
merge_metadata(result, overlay) ==
    [result EXCEPT
        !.name = overlay.name,
        !.description = merge_description(result.description, overlay.description),
        !.parent_template_id = overlay.parent_template_id,
        !.created_at = overlay.created_at,
        !.modified_at = overlay.modified_at]

\* _merge_templates(base, overlay): the results it may return, one for each
\* order list(set(...)) may give the tags
merge_templates(base, overlay) ==
    { merge_metadata(
        [base EXCEPT
           !.temperature = merge_dataclass(base.temperature, overlay.temperature),
           !.gas_flow = merge_dataclass(base.gas_flow, overlay.gas_flow),
           !.precursor = merge_dataclass(base.precursor, overlay.precursor),
           !.substrate = merge_dataclass(base.substrate, overlay.substrate),
           !.custom_fields = dict_update(base.custom_fields, overlay.custom_fields),
           !.tags = tags],
        overlay)
      : tags \in merge_tags(base.tags, overlay.tags) }

RECURSIVE FoldChain(_, _, _)
\* `for template in reversed(chain): resolved = _merge_templates(resolved,
\* template)` from chain[i] down to chain[1], for every resolved in the set
FoldChain(chain, i, resolved) ==
    IF i = 0 THEN resolved
    ELSE FoldChain(chain, i - 1,
                   UNION {merge_templates(r, chain[i]) : r \in resolved})

\* resolve_template after its chain is built, called at time t: the
\* templates it may return
ResolveChain(T, template_id, chain, t) ==
    FoldChain(chain, Len(chain),
              {RecipeTemplate(template_id, T[template_id].name, "", t)})

\* resolve_template(template_id) called at time t: how it may end
resolve_template(T, template_id, t) ==
    IF template_id \notin DOMAIN T THEN {[outcome |-> "NotFound", ret |-> None]}
    ELSE LET c == get_inheritance_chain(T, template_id) IN
         IF c.pc = "raise"
         THEN {[outcome |-> "CircularInheritance", ret |-> None]}
         ELSE {[outcome |-> "ok", ret |-> r] :
                  r \in ResolveChain(T, template_id, c.chain, t)}

\* the loop of get_effective_value walking `reversed(chain)`: the place of the
\* value-bearing template nearest the root, 0 if none
LastBearing(chain, path, i) ==
    LET bearing == {k \in i..Len(chain) :
                       get_field_value(chain[k], path).kind # "None"}
    IN IF bearing = {} THEN 0
       ELSE CHOOSE k \in bearing : \A j \in bearing : j <= k

RECURSIVE FirstBearing(_, _, _)
\* `for template in chain:` of get_effective_value from chain[i] on: the
\* place of the first template whose value at path is not None, 0 if none
FirstBearing(chain, path, i) ==
    IF i > Len(chain) THEN 0
    ELSE IF get_field_value(chain[i], path).kind # "None" THEN i
    ELSE FirstBearing(chain, path, i + 1)

\* get_effective_value(template_id, field_path) called at time t, when uuid4
\* hands out fresh: how it ends, with the value and the source id it returns
get_effective_value(T, template_id, path, fresh, t) ==
    LET c == get_inheritance_chain(T, template_id) IN
    IF c.pc = "raise"
    THEN [outcome |-> "CircularInheritance", value |-> NoneObj, source |-> None]
    ELSE LET i == FirstBearing(c.chain, path, 1) IN
         IF i > 0
         THEN [outcome |-> "ok", value |-> get_field_value(c.chain[i], path),
               source |-> c.chain[i].id]
         ELSE [outcome |-> "ok",
               value |-> get_field_value(RecipeTemplate(fresh, "", "", t), path),
               source |-> None]

\* the fields annotated float in recipe.py
FloatFields ==
    { "ramp_rate_1", "hold_temp_1", "hold_time_1", "ramp_rate_2", "peak_temp",
      "peak_hold_time", "controlled_cool_rate", "ar_flow", "h2_flow",
      "total_flow", "moo3_amount", "s_amount", "moo3_position", "s_position",
      "oxide_thickness" }

\* float('nan'), which a float field may hold (nothing validates the values
\* update_template stores or load reads): written as a number that no other
\* value of the model is
nan == -1

\* `v1 != v2` of diff_templates for the values found at path: nan is unequal
\* to every float, itself included
py_ne(path, v1, v2) ==
    \/ v1 # v2
    \/ path[Len(path)] \in FloatFields /\ v1.val = nan

\* what diff_templates records for a path
DiffEntry(t1, t2, path) ==
    [field_path |-> path,
     value_1 |-> get_field_value(t1, path).val,
     value_2 |-> get_field_value(t2, path).val]

\* the loop of diff_templates with diffs.insert(0, ...) for diffs.append(...)
DiffLoopPrepend(t1, t2, paths) ==
    LET differing == SelectSeq(paths,
                        LAMBDA path : py_ne(path, get_field_value(t1, path),
                                            get_field_value(t2, path)))
    IN [k \in 1..Len(differing) |->
           DiffEntry(t1, t2, differing[Len(differing) + 1 - k])]

\* `for path in self.get_all_field_paths(): ... if v1 != v2: diffs.append(...)`
\* of diff_templates: the entries of the paths that differ, in the paths' order
DiffLoop(t1, t2, paths) ==
    LET differing == SelectSeq(paths,
                        LAMBDA path : py_ne(path, get_field_value(t1, path),
                                            get_field_value(t2, path)))
    IN [k \in 1..Len(differing) |-> DiffEntry(t1, t2, differing[k])]

\* diff_templates(template_id_1, template_id_2) called at time t: how it may
\* end (the first resolve_template that raises ends it)
diff_templates(T, template_id_1, template_id_2, t) ==
    LET r1 == resolve_template(T, template_id_1, t)
        r2 == resolve_template(T, template_id_2, t)
    IN IF \E x \in r1 : x.outcome # "ok"
       THEN {[outcome |-> x.outcome, ret |-> <<>>] : x \in r1}
       ELSE IF \E y \in r2 : y.outcome # "ok"
       THEN {[outcome |-> y.outcome, ret |-> <<>>] : y \in r2}
       ELSE {[outcome |-> "ok",
              ret |-> DiffLoop(x.ret, y.ret, get_all_field_paths)] :
                x \in r1, y \in r2}

-----------------------------------------------------------------------------
(* template_editor.py: the template editor.  _current_template is a
   reference: to the object the store holds under editor.current (what
   get_template returned), or to the object new_template constructed, kept in
   editor.fresh until it is stored.  combo is currentData() of the parent
   combo, items the ids of its entries besides "(None - Base Template)".  The
   combo's currentIndexChanged is connected to _on_parent_changed and is sent
   on every change of its index, the program's own changes included.  Of the
   parameter fields one stands for all: temperature.peak_temp *)

\* the path of the parameter field the editor shows
EditorPath == <<"temperature", "peak_temp">>

\* the values the user may enter in the field
FieldValues == {800}

\* the names the user may type into the name input
NameInputs == {"", "Base"}

\* InheritableParameterField after __init__ (its spin box shows 0)
FieldWidget == [is_inherited |-> TRUE, inherited_value |-> None, input |-> 0]

\* TemplateEditorView after __init__: _current_template is None and the
\* parent combo holds its first entry, "(None - Base Template)"
EditorClosed ==
    [current |-> None, fresh |-> EmptyDict, combo |-> None, items |-> {},
     name_input |-> "", desc_input |-> "", field |-> FieldWidget]

\* the object _current_template refers to
CurrentObj(st) ==
    IF st.editor.current \in DOMAIN st.editor.fresh
    THEN st.editor.fresh[st.editor.current]
    ELSE st.templates[st.editor.current]

\* an assignment to the object _current_template refers to: obj is the
\* object afterwards
SetCurrent(st, obj) ==
    IF st.editor.current \in DOMAIN st.editor.fresh
    THEN [st EXCEPT !.editor.fresh = (st.editor.current :> obj) @@ @]
    ELSE [st EXCEPT !.templates = (st.editor.current :> obj) @@ @]

\* _load_parameter_values() called at time t: resolve_template may raise and
\* end it; otherwise the field is handed the effective value
load_parameter_values(st, fresh, t) ==
    IF st.editor.current = None THEN st
    ELSE IF st.editor.current \in DOMAIN st.templates
    THEN LET ev == get_effective_value(st.templates, st.editor.current,
                                       EditorPath, fresh, t) IN
         IF ev.outcome # "ok" THEN st
         ELSE [st EXCEPT !.editor.field.inherited_value = ev.value.val,
                         !.editor.field.input = ev.value.val]
    ELSE LET v == get_field_value(CurrentObj(st), EditorPath).val IN
         [st EXCEPT !.editor.field.inherited_value = v,
                    !.editor.field.input = v]

\* _on_parent_changed(index): an exception of _load_parameter_values ends
\* the slot after the assignment
on_parent_changed(st, fresh, t) ==
    IF st.editor.current = None THEN st
    ELSE load_parameter_values(
            SetCurrent(st, [CurrentObj(st) EXCEPT
                               !.parent_template_id = st.editor.combo]),
            fresh, t)

\* parent_combo.setCurrentIndex(i) for the entry with data `data`: the
\* signal is sent when the index changes
SetIndex(st, data, fresh, t) ==
    IF data = st.editor.combo THEN st
    ELSE on_parent_changed([st EXCEPT !.editor.combo = data], fresh, t)

\* _refresh_parent_combo(): clear() leaves no current entry and addItem of
\* the first entry makes it current, each sending the signal with
\* currentData() None; the entries are the stored templates but the current
\* one; the entry selected before is selected again
refresh_parent_combo(st, fresh, t) ==
    LET current_data == st.editor.combo
        items == DOMAIN st.templates \ {st.editor.current}
        cleared == on_parent_changed(
                      [st EXCEPT !.editor.combo = None, !.editor.items = items],
                      fresh, t)
    IN IF current_data \in items THEN SetIndex(cleared, current_data, fresh, t)
       ELSE cleared

\* load_template(template_id)
load_template(st, template_id, fresh, t) ==
    IF template_id \notin DOMAIN st.templates THEN st
    ELSE LET template == st.templates[template_id]
             shown == [st EXCEPT !.editor.current = template_id,
                                 !.editor.fresh = EmptyDict,
                                 !.editor.name_input = template.name,
                                 !.editor.desc_input = template.description]
             refreshed == refresh_parent_combo(shown, fresh, t)
             parent == CurrentObj(refreshed).parent_template_id
             selected == IF parent # None /\ parent \in refreshed.editor.items
                         THEN SetIndex(refreshed, parent, fresh, t)
                         ELSE refreshed
         IN load_parameter_values(selected, fresh, t)

\* new_template(parent_id) when uuid4 hands out id, at time t
new_template(st, parent_id, id, t) ==
    LET obj == [RecipeTemplate(id, "New Template", "", t) EXCEPT
                   !.parent_template_id = parent_id]
        shown == [st EXCEPT !.editor.current = id,
                            !.editor.fresh = (id :> obj),
                            !.editor.name_input = "",
                            !.editor.desc_input = ""]
        refreshed == refresh_parent_combo(shown, id + 1, t)
        selected == IF parent_id # None /\ parent_id \in refreshed.editor.items
                    THEN SetIndex(refreshed, parent_id, id + 1, t)
                    ELSE refreshed
    IN load_parameter_values(selected, id + 1, t)

\* _on_field_changed(field_path, value)
on_field_changed(st, path, value) ==
    IF st.editor.current = None THEN st
    ELSE SetCurrent(st, set_field_value(CurrentObj(st), path, value).obj)

\* _on_save() up to "Save to manager": the object _current_template refers
\* to after the name, the description, the parent selection and the field,
\* when it is overridden, are assigned to it
SavedObj(st) ==
    LET named == [CurrentObj(st) EXCEPT
                     !.name = st.editor.name_input,
                     !.description = st.editor.desc_input,
                     !.parent_template_id = st.editor.combo]
    IN IF st.editor.field.is_inherited THEN named
       ELSE set_field_value(named, EditorPath, st.editor.field.input).obj

-----------------------------------------------------------------------------
(* template_manager.py: the store's operations *)

\* dict without one key
DictDel(d, k) == [x \in (DOMAIN d) \ {k} |-> d[x]]

\* dict with d[k] = v
DictPut(d, k, v) == [x \in (DOMAIN d) \cup {k} |-> IF x = k THEN v ELSE d[x]]

\* a signal emission: the topic and the id it carries
Event(topic, id) == [topic |-> topic, id |-> id]

\* the record kept of a finished call
\* (ret is what it returned, None when it raised or returns nothing; an
\* object of a store is returned by reference: ret is the id it is stored under)
Call(op, arg, outcome, ret, events) ==
    [op |-> op, arg |-> arg, outcome |-> outcome, ret |-> ret, events |-> events]

\* no call of the resolver is in progress
WalkIdle == [caller |-> "none", pc |-> "idle", target |-> None,
             current_id |-> None, visited |-> {}, chain |-> <<>>]

\* the ids a caller may name: those uuid4 hands out within the bound
CallIds == 1..MaxCreates

\* the names given to new templates
CreateNames == {"New Template"}

\* create_template that never looks the parent up
create_template_unchecked_parent(name, parent_id) ==
    LET template == RecipeTemplate(nextId, name, "", now) IN
    IF parent_id # None /\ would_create_cycle(templates, template.id, parent_id)
    THEN /\ last' = Call("create", parent_id, "CycleDetected", None, <<>>)
         /\ UNCHANGED <<templates, nextId, now, walk>>
         /\ seen' = <<>>
    ELSE /\ nextId <= MaxCreates
         /\ templates' = DictPut(templates, template.id,
                                 [template EXCEPT !.parent_template_id = parent_id])
         /\ nextId' = nextId + 1
         /\ last' = Call("create", parent_id, "ok", template.id,
                         <<Event("template_created", template.id)>>)
         /\ UNCHANGED <<now, walk>>
         /\ seen' = <<templates'>>

\* create_template(name, parent_id, description="")
create_template(name, parent_id) ==
    LET template == RecipeTemplate(nextId, name, "", now) IN
    IF parent_id # None /\ parent_id \notin DOMAIN templates
    THEN /\ last' = Call("create", parent_id, "NotFound", None, <<>>)
         /\ UNCHANGED <<templates, nextId, now, walk>>
         /\ seen' = <<>>
    ELSE IF parent_id # None /\ would_create_cycle(templates, template.id, parent_id)
    THEN /\ last' = Call("create", parent_id, "CycleDetected", None, <<>>)
         /\ UNCHANGED <<templates, nextId, now, walk>>
         /\ seen' = <<>>
    ELSE /\ nextId <= MaxCreates
         /\ templates' = DictPut(templates, template.id,
                                 [template EXCEPT !.parent_template_id = parent_id])
         /\ nextId' = nextId + 1
         /\ last' = Call("create", parent_id, "ok", template.id,
                         <<Event("template_created", template.id)>>)
         /\ UNCHANGED <<now, walk>>
         /\ seen' = <<templates'>>

\* update_template(template)
update_template(template) ==
    IF template.id \notin DOMAIN templates
    THEN /\ last' = Call("update", template.id, "NotFound", None, <<>>)
         /\ UNCHANGED <<templates, nextId, now, walk>>
         /\ seen' = <<>>
    ELSE /\ templates' = DictPut(templates, template.id,
                                 update_modified(template, now))
         /\ last' = Call("update", template.id, "ok", None,
                         <<Event("template_modified", template.id)>>)
         /\ UNCHANGED <<nextId, now, walk>>
         /\ seen' = <<templates'>>

\* delete_template without the check for inheriting templates
delete_template_unchecked(template_id) ==
    IF template_id \notin DOMAIN templates
    THEN /\ last' = Call("delete", template_id, "False", None, <<>>)
         /\ UNCHANGED <<templates, nextId, now, walk>>
         /\ seen' = <<>>
    ELSE /\ templates' = DictDel(templates, template_id)
         /\ last' = Call("delete", template_id, "True", None,
                         <<Event("template_deleted", template_id)>>)
         /\ UNCHANGED <<nextId, now, walk>>
         /\ seen' = <<templates'>>

\* delete_template refusing a template that has a parent, not one that has
\* children
delete_template_checks_own_parent(template_id) ==
    IF template_id \notin DOMAIN templates
    THEN /\ last' = Call("delete", template_id, "False", None, <<>>)
         /\ UNCHANGED <<templates, nextId, now, walk>>
         /\ seen' = <<>>
    ELSE IF templates[template_id].parent_template_id # None
    THEN /\ last' = Call("delete", template_id, "HasChildren", None, <<>>)
         /\ UNCHANGED <<templates, nextId, now, walk>>
         /\ seen' = <<>>
    ELSE /\ templates' = DictDel(templates, template_id)
         /\ last' = Call("delete", template_id, "True", None,
                         <<Event("template_deleted", template_id)>>)
         /\ UNCHANGED <<nextId, now, walk>>
         /\ seen' = <<templates'>>

\* delete_template that emits template_deleted before it takes the template
\* out of _templates
delete_template_emits_first(template_id) ==
    IF template_id \notin DOMAIN templates
    THEN /\ last' = Call("delete", template_id, "False", None, <<>>)
         /\ UNCHANGED <<templates, nextId, now, walk>>
         /\ seen' = <<>>
    ELSE IF \E t \in DOMAIN templates :
                templates[t].parent_template_id = template_id
    THEN /\ last' = Call("delete", template_id, "HasChildren", None, <<>>)
         /\ UNCHANGED <<templates, nextId, now, walk>>
         /\ seen' = <<>>
    ELSE /\ templates' = DictDel(templates, template_id)
         /\ last' = Call("delete", template_id, "True", None,
                         <<Event("template_deleted", template_id)>>)
         /\ UNCHANGED <<nextId, now, walk>>
         /\ seen' = <<templates>>

\* delete_template(template_id): the template is taken out of _templates
\* and template_deleted is emitted then
delete_template(template_id) ==
    IF template_id \notin DOMAIN templates
    THEN /\ last' = Call("delete", template_id, "False", None, <<>>)
         /\ UNCHANGED <<templates, nextId, now, walk>>
         /\ seen' = <<>>
    ELSE IF \E t \in DOMAIN templates :
                templates[t].parent_template_id = template_id
    THEN /\ last' = Call("delete", template_id, "HasChildren", None, <<>>)
         /\ UNCHANGED <<templates, nextId, now, walk>>
         /\ seen' = <<>>
    ELSE /\ templates' = DictDel(templates, template_id)
         /\ last' = Call("delete", template_id, "True", None,
                         <<Event("template_deleted", template_id)>>)
         /\ UNCHANGED <<nextId, now, walk>>
         /\ seen' = <<templates'>>

\* the entities a caller may hand to update_template for an id: the stored
\* object (get_template returns it) or one constructed now, with a parent
\* reference of the caller's choice: None or an id uuid4 has handed out,
\* stored or deleted since (no caller can name an id uuid4 has yet to draw)
UpdateInputs(id) ==
    LET bases == {RecipeTemplate(id, "New Template", "", now)}
                 \cup (IF id \in DOMAIN templates THEN {templates[id]} ELSE {})
    IN { [b EXCEPT !.parent_template_id = p] :
           b \in bases, p \in {None} \cup {i \in CallIds : i < nextId} }

-----------------------------------------------------------------------------
(* The store driven through its operations *)

\* the parameter fields of the experiment editor the model follows, three of
\* the seven of _create_params_section
ParamFields ==
    { <<"temperature", "peak_temp">>, <<"gas_flow", "ar_flow">>,
      <<"gas_flow", "h2_flow">> }

\* a ParameterField: what set_inherited_value and set_value leave in it
ParameterField(inherited_value, value, is_overridden) ==
    [inherited_value |-> inherited_value, value |-> value,
     is_overridden |-> is_overridden]

\* the ExperimentEditorView as constructed: no experiment, the labels empty,
\* the fields as ParameterField.__init__ leaves them (a spin box shows 0)
ViewInit ==
    [current_experiment |-> None, name_input |-> "", template_name_label |-> "",
     fields |-> [p \in ParamFields |-> ParameterField(None, 0, FALSE)]]

\* the experiment store, the editors and the experiment before anything is
\* done with them
OthersInit ==
    /\ experiments = EmptyDict
    /\ images_dir = None
    /\ editor = EditorClosed
    /\ experiment = None
    /\ trail = <<>>
    /\ seen = <<>>
    /\ view = ViewInit

Init ==
    /\ templates = EmptyDict
    /\ nextId = 1
    /\ now = 0
    /\ last = Call("init", None, "ok", None, <<>>)
    /\ walk = WalkIdle
    /\ OthersInit

Create == /\ \E name \in CreateNames, parent_id \in {None} \cup CallIds :
                create_template(name, parent_id)
          /\ UNCHANGED others

Update == /\ \E id \in CallIds : \E template \in UpdateInputs(id) :
                update_template(template)
          /\ UNCHANGED others

Delete == /\ \E template_id \in CallIds : delete_template(template_id)
          /\ UNCHANGED others

\* time passes between calls
Tick == /\ now < MaxTime
        /\ now' = now + 1
        /\ UNCHANGED <<templates, nextId, last, walk>>
        /\ seen' = <<>>
        /\ UNCHANGED others

Next == Create \/ Update \/ Delete \/ Tick

Spec == Init /\ [][Next]_vars

-----------------------------------------------------------------------------
(* The store driven through create_template and delete_template alone *)

\* the names given to the templates created here
TemplateNames == {"New Template", "Base"}

\* create_template(name, parent_id) is called
CreateNamed ==
    /\ \E name \in TemplateNames, parent_id \in {None} \cup CallIds :
          create_template(name, parent_id)
    /\ UNCHANGED others

CreateDeleteNext == CreateNamed \/ Delete \/ Tick

CreateDeleteSpec == Init /\ [][CreateDeleteNext]_vars

-----------------------------------------------------------------------------

(* experiment.py and experiment_manager.py: the experiment store *)

\* Experiment(name=name, template_id=template_id, notes=notes, run_date=run_date)
\* constructed at time t with the id uuid4 hands out
Experiment(id, name, template_id, notes, run_date, t) ==
    [id |-> id, name |-> name, template_id |-> template_id,
     created_at |-> t, run_date |-> run_date, completed_at |-> None,
     status |-> "planned",
     overrides |-> EmptyDict, override_reasons |-> EmptyDict,
     outcome |-> "unknown", notes |-> notes, observations |-> "",
     sample_ids |-> <<>>, characterization_ids |-> <<>>, tags |-> <<>>]

\* an images directory handed to ExperimentManager
ImagesDir == 1

\* the names given to new experiments
ExperimentNames == {"New Experiment"}

\* create_experiment(name, template_id, notes="")
create_experiment(name, template_id) ==
    LET e == Experiment(nextId, name, template_id, "", now, now) IN
    /\ nextId <= MaxCreates
    /\ experiments' = DictPut(experiments, e.id, e)
    /\ nextId' = nextId + 1
    /\ last' = Call("create_experiment", template_id, "ok", e.id,
                    <<Event("experiment_created", e.id)>>)
    /\ UNCHANGED <<now, images_dir>>

\* update_experiment(experiment)
update_experiment(e) ==
    IF e.id \notin DOMAIN experiments
    THEN /\ last' = Call("update_experiment", e.id, "NotFound", None, <<>>)
         /\ UNCHANGED <<experiments, nextId, now, images_dir>>
    ELSE /\ experiments' = DictPut(experiments, e.id, e)
         /\ last' = Call("update_experiment", e.id, "ok", None,
                         <<Event("experiment_modified", e.id)>>)
         /\ UNCHANGED <<nextId, now, images_dir>>

\* delete_experiment that emits experiment_deleted before it looks for the
\* images
delete_experiment_emits_first(experiment_id) ==
    IF experiment_id \notin DOMAIN experiments
    THEN /\ last' = Call("delete_experiment", experiment_id, "False", None, <<>>)
         /\ UNCHANGED <<experiments, nextId, now, images_dir>>
    ELSE IF images_dir # None
    THEN /\ last' = Call("delete_experiment", experiment_id, "AttributeError", None,
                         <<Event("experiment_deleted", experiment_id)>>)
         /\ UNCHANGED <<experiments, nextId, now, images_dir>>
    ELSE /\ experiments' = DictDel(experiments, experiment_id)
         /\ last' = Call("delete_experiment", experiment_id, "True", None,
                         <<Event("experiment_deleted", experiment_id)>>)
         /\ UNCHANGED <<nextId, now, images_dir>>

\* delete_experiment(experiment_id): with an images directory the loop over
\* experiment.optical_images is reached, an attribute Experiment does not
\* have, and the call ends there with AttributeError
delete_experiment(experiment_id) ==
    IF experiment_id \notin DOMAIN experiments
    THEN /\ last' = Call("delete_experiment", experiment_id, "False", None, <<>>)
         /\ UNCHANGED <<experiments, nextId, now, images_dir>>
    ELSE IF images_dir # None
    THEN /\ last' = Call("delete_experiment", experiment_id, "AttributeError", None, <<>>)
         /\ UNCHANGED <<experiments, nextId, now, images_dir>>
    ELSE /\ experiments' = DictDel(experiments, experiment_id)
         /\ last' = Call("delete_experiment", experiment_id, "True", None,
                         <<Event("experiment_deleted", experiment_id)>>)
         /\ UNCHANGED <<nextId, now, images_dir>>

\* the entities a caller may hand to update_experiment for an id: the stored
\* object (get_experiment returns it), as it is or with notes written to it,
\* or one constructed now
ExperimentInputs(id) ==
    {Experiment(id, "New Experiment", 1, "", None, now)}
    \cup (IF id \in DOMAIN experiments
          THEN {experiments[id], [experiments[id] EXCEPT !.notes = "edited"]}
          ELSE {})

\* what the experiment store never touches
beside == <<templates, walk, editor, experiment, trail, view>>

CreateExperiment ==
    /\ \E name \in ExperimentNames, template_id \in CallIds :
          create_experiment(name, template_id)
    /\ UNCHANGED beside
    /\ seen' = <<>>

UpdateExperiment ==
    /\ \E id \in CallIds : \E e \in ExperimentInputs(id) : update_experiment(e)
    /\ UNCHANGED beside
    /\ seen' = <<>>

DeleteExperiment ==
    /\ \E experiment_id \in CallIds : delete_experiment(experiment_id)
    /\ UNCHANGED beside
    /\ seen' = <<>>

\* both stores of a session, the experiment store constructed with or
\* without an images directory
StoresInit ==
    /\ templates = EmptyDict
    /\ nextId = 1
    /\ now = 0
    /\ last = Call("init", None, "ok", None, <<>>)
    /\ walk = WalkIdle
    /\ experiments = EmptyDict
    /\ images_dir \in {None, ImagesDir}
    /\ editor = EditorClosed
    /\ experiment = None
    /\ trail = <<>>
    /\ seen = <<>>
    /\ view = ViewInit

StoresNext ==
    \/ Create \/ Update \/ Delete
    \/ CreateExperiment \/ UpdateExperiment \/ DeleteExperiment

StoresSpec == StoresInit /\ [][StoresNext]_vars

-----------------------------------------------------------------------------
(* The resolver run on the stores a load or a sequence of updates may leave *)

\* the ids of a drawn store
StoreIds == 1..MaxTemplates

\* what a drawn template holds besides its id and parent reference
DefaultContent ==
    [name |-> "Base", description |-> "", peak_temp |-> 750,
     custom_fields |-> EmptyDict, tags |-> <<>>,
     created_at |-> 0, modified_at |-> 0]

Contents ==
    { DefaultContent,
      [name |-> "A", description |-> "d", peak_temp |-> 700,
       custom_fields |-> [k \in {"k"} |-> 1], tags |-> <<"x", "x">>,
       created_at |-> 0, modified_at |-> 1],
      [name |-> "B", description |-> "", peak_temp |-> 750,
       custom_fields |-> [k \in {"k", "j"} |-> 2], tags |-> <<"y", "x">>,
       created_at |-> 1, modified_at |-> 1] }

\* the template with this id, parent reference and content
Drawn(id, parent, c) ==
    [RecipeTemplate(id, c.name, c.description, c.created_at) EXCEPT
        !.parent_template_id = parent,
        !.modified_at = c.modified_at,
        !.temperature.peak_temp = c.peak_temp,
        !.custom_fields = c.custom_fields,
        !.tags = c.tags]

\* the store over the ids S where template i has the parent reference and
\* the content g[i] names
DrawnStore(S, g) == [i \in S |-> Drawn(i, g[i][1], g[i][2])]

\* any store over some of the ids, with contents among cs and with parent
\* references up to the id `top` allows each template
InitOn(cs, top) ==
    /\ \E S \in SUBSET StoreIds :
          \E g \in [S -> ({None} \cup StoreIds) \X cs] :
             /\ \A i \in S : g[i][1] <= top[i]
             /\ templates = DrawnStore(S, g)
    /\ nextId = MaxTemplates + 1
    /\ now = MaxTime
    /\ last = Call("init", None, "ok", None, <<>>)
    /\ walk = WalkIdle
    /\ OthersInit

\* get_inheritance_chain(template_id) is called: its loop is entered
CallChain ==
    \E template_id \in StoreIds :
        /\ walk.pc = "idle"
        /\ walk' = [caller |-> "get_inheritance_chain"] @@ ChainStart(template_id)
        /\ last' = Call("get_inheritance_chain", template_id, "running", None, <<>>)
        /\ UNCHANGED <<templates, nextId, now>>
        /\ seen' = <<>>
        /\ UNCHANGED others

\* resolve_template(template_id) is called: it raises, or calls
\* get_inheritance_chain
CallResolve ==
    \E template_id \in StoreIds :
        /\ walk.pc = "idle"
        /\ IF template_id \notin DOMAIN templates
           THEN /\ last' = Call("resolve_template", template_id, "NotFound", None, <<>>)
                /\ walk' = walk
           ELSE /\ last' = Call("resolve_template", template_id, "running", None, <<>>)
                /\ walk' = [caller |-> "resolve_template"] @@ ChainStart(template_id)
        /\ UNCHANGED <<templates, nextId, now>>
        /\ seen' = <<>>
        /\ UNCHANGED others

\* one turn of the loop of get_inheritance_chain
ChainStep ==
    /\ walk.pc = "loop"
    /\ walk' = ChainLoop(templates, walk)
    /\ UNCHANGED <<templates, nextId, now, last>>
    /\ seen' = <<>>
    /\ UNCHANGED others

\* the loop is left: get_inheritance_chain returns or raises, and
\* resolve_template, when it is the caller, folds the chain and returns
ChainEnd ==
    /\ walk.pc \in {"return", "raise"}
    /\ walk' = WalkIdle
    /\ IF walk.pc = "raise"
       THEN last' = Call(walk.caller, walk.target, "CircularInheritance", None, <<>>)
       ELSE IF walk.caller = "get_inheritance_chain"
       THEN last' = Call(walk.caller, walk.target, "ok", walk.chain, <<>>)
       ELSE \E r \in ResolveChain(templates, walk.target, walk.chain, now) :
               last' = Call(walk.caller, walk.target, "ok", r, <<>>)
    /\ UNCHANGED <<templates, nextId, now>>
    /\ seen' = <<>>
    /\ UNCHANGED others

\* any parent reference: to stored ids, to ids not stored, to the template
\* itself, in cycles of any length
AnyParent == [i \in StoreIds |-> MaxTemplates]

WalkInit == InitOn({DefaultContent}, AnyParent)

WalkNext == CallChain \/ CallResolve \/ ChainStep \/ ChainEnd

\* a call, once made, runs to its end: nothing else runs in between
WalkSpec == WalkInit /\ [][WalkNext]_vars /\ WF_vars(ChainStep) /\ WF_vars(ChainEnd)

\* resolve_template(template_id) as one step, called on the drawn store (it
\* changes nothing there, so one call reaches every result)
Resolve ==
    \E template_id \in StoreIds :
        \E o \in resolve_template(templates, template_id, now) :
            /\ last.op = "init"
            /\ last' = Call("resolve_template", template_id, o.outcome, o.ret, <<>>)
            /\ UNCHANGED <<templates, nextId, now, walk>>
            /\ seen' = <<>>
            /\ UNCHANGED others

\* the ids numbered so that no template has a smaller id than its parent (the
\* resolver compares ids for equality only): a parent reference names a
\* stored id, an id not stored, or the template itself
ParentNotAbove == [i \in StoreIds |-> i]

ResolveInit == InitOn(Contents, ParentNotAbove)

ResolveNext == Resolve

ResolveSpec == ResolveInit /\ [][ResolveNext]_vars

-----------------------------------------------------------------------------
(* The queries of the resolver and the diff run on drawn stores *)

\* what a template drawn for the queries holds: a content and an ar_flow
\* (one of them the float nan)
QueryContents ==
    { <<DefaultContent, 100>>,
      <<[name |-> "A", description |-> "d", peak_temp |-> 700,
         custom_fields |-> [k \in {"k"} |-> 1], tags |-> <<"x", "x">>,
         created_at |-> 0, modified_at |-> 1], 50>>,
      <<[name |-> "B", description |-> "", peak_temp |-> 750,
         custom_fields |-> [k \in {"k", "j"} |-> 2], tags |-> <<"y", "x">>,
         created_at |-> 1, modified_at |-> 1], 100>>,
      <<DefaultContent, nan>> }

\* the paths the queries ask for: a known path, two custom fields, and a
\* name no template has
QueryPaths ==
    { <<"temperature", "peak_temp">>, <<"custom_fields", "k">>,
      <<"custom_fields", "j">>, <<"nosuch">> }

\* any store over some of the ids a caller may name, with any parent
\* references among them
QueryInit ==
    /\ \E S \in SUBSET CallIds :
          \E g \in [S -> ({None} \cup CallIds) \X QueryContents] :
             templates =
                [i \in S |->
                    [Drawn(i, g[i][1], g[i][2][1]) EXCEPT
                        !.gas_flow.ar_flow = g[i][2][2]]]
    /\ nextId = MaxCreates + 1
    /\ now = MaxTime
    /\ last = Call("init", None, "ok", None, <<>>)
    /\ walk = WalkIdle
    /\ OthersInit

\* get_effective_value(template_id, field_path) is called
EffectiveValue ==
    /\ last.op = "init"
    /\ \E template_id \in CallIds, path \in QueryPaths :
          LET ev == get_effective_value(templates, template_id, path, nextId, now)
          IN last' = Call("get_effective_value", <<template_id, path>>,
                          ev.outcome, <<ev.value, ev.source>>, <<>>)
    /\ UNCHANGED <<templates, nextId, now, walk>>
    /\ seen' = <<>>
    /\ UNCHANGED others

\* diff_templates(template_id_1, template_id_2) is called
Diff ==
    /\ last.op = "init"
    /\ \E template_id_1 \in CallIds, template_id_2 \in CallIds :
          \E o \in diff_templates(templates, template_id_1, template_id_2, now) :
             last' = Call("diff_templates", <<template_id_1, template_id_2>>,
                          o.outcome, o.ret, <<>>)
    /\ UNCHANGED <<templates, nextId, now, walk>>
    /\ seen' = <<>>
    /\ UNCHANGED others

QueryNext == EffectiveValue \/ Diff

QuerySpec == QueryInit /\ [][QueryNext]_vars

-----------------------------------------------------------------------------
(* The template editor at work on a store *)

\* how many templates new_template may construct
MaxNew == 1

\* the store and the editor, as the editor's handlers see them
St == [templates |-> templates, editor |-> editor]

\* what a handler leaves of the store and of the editor
Commit(st) == templates' = st.templates /\ editor' = st.editor

\* what the editor's handlers, the save apart, never touch
offstage == <<now, last, walk, experiments, images_dir, experiment, trail, view>>

\* a template is picked in the tree: load_template(template_id)
LoadTemplate ==
    \E template_id \in CallIds :
        /\ template_id \in DOMAIN templates
        /\ Commit(load_template(St, template_id, nextId, now))
        /\ UNCHANGED <<nextId, offstage>>
        /\ seen' = <<>>

\* "New Template" or "New Child Template": new_template(parent_id)
NewTemplate ==
    \E parent_id \in {None} \cup DOMAIN templates :
        /\ nextId <= MaxCreates + MaxNew
        /\ Commit(new_template(St, parent_id, nextId, now))
        /\ nextId' = nextId + 1
        /\ UNCHANGED offstage
        /\ seen' = <<>>

\* the user picks another entry of the parent combo
ParentSelected ==
    \E data \in ({None} \cup editor.items) \ {editor.combo} :
        /\ Commit(on_parent_changed([St EXCEPT !.editor.combo = data], nextId, now))
        /\ UNCHANGED <<nextId, offstage>>
        /\ seen' = <<>>

\* the user types into the name input
NameTyped ==
    \E text \in NameInputs \ {editor.name_input} :
        /\ editor' = [editor EXCEPT !.name_input = text]
        /\ UNCHANGED <<templates, nextId, offstage>>
        /\ seen' = <<>>

\* the user clicks the field's lock: _toggle_inheritance()
ToggleInheritance ==
    /\ editor' = IF editor.field.is_inherited
                 THEN [editor EXCEPT !.field.is_inherited = FALSE]
                 ELSE [editor EXCEPT !.field.is_inherited = TRUE,
                                     !.field.input = editor.field.inherited_value]
    /\ UNCHANGED <<templates, nextId, offstage>>
    /\ seen' = <<>>

\* the user enters a value in the field, which is enabled when it is not
\* inherited: _on_value_changed sends value_changed to _on_field_changed
FieldEdited ==
    \E value \in FieldValues \ {editor.field.input} :
        /\ ~editor.field.is_inherited
        /\ Commit(on_field_changed([St EXCEPT !.editor.field.input = value],
                                   EditorPath, value))
        /\ UNCHANGED <<nextId, offstage>>
        /\ seen' = <<>>

\* "Save" with a template in the editor and a name typed: _on_save()
Save ==
    /\ editor.current # None
    /\ editor.name_input # ""
    /\ IF editor.current \in DOMAIN templates
       THEN /\ update_template(SavedObj(St))
            /\ UNCHANGED editor
       ELSE /\ templates' = DictPut(templates, editor.current, SavedObj(St))
            /\ editor' = [editor EXCEPT !.fresh = EmptyDict]
            /\ last' = Call("save", editor.current, "ok", None,
                            <<Event("template_created", editor.current)>>)
            /\ UNCHANGED <<nextId, now, walk>>
            /\ seen' = <<templates'>>
    /\ UNCHANGED <<experiments, images_dir, experiment, trail, view>>

\* "Cancel": _on_cancel()
Cancel ==
    /\ editor.current # None
    /\ Commit(load_template(St, editor.current, nextId, now))
    /\ UNCHANGED <<nextId, offstage>>
    /\ seen' = <<>>

\* a store as a load or earlier calls left it, last modified before now,
\* and the editor just constructed
EditorInit ==
    /\ \E S \in SUBSET CallIds :
          \E g \in [S -> ({None} \cup CallIds) \X {DefaultContent}] :
             templates = DrawnStore(S, g)
    /\ nextId = MaxCreates + 1
    /\ now = MaxTime
    /\ last = Call("init", None, "ok", None, <<>>)
    /\ walk = WalkIdle
    /\ OthersInit

EditorNext ==
    \/ LoadTemplate \/ NewTemplate \/ ParentSelected \/ NameTyped
    \/ ToggleInheritance \/ FieldEdited \/ Save \/ Cancel

EditorSpec == EditorInit /\ [][EditorNext]_vars

-----------------------------------------------------------------------------
(* What the claims speak of, stated apart from the code's loops *)

\* the ids the parent references of the stored templates among S name
ParentsOf(T, S) ==
    {T[x].parent_template_id : x \in S \cap DOMAIN T} \ {None}

RECURSIVE Closure(_, _, _)
(* experiment.py: the overrides of an experiment and their reasons, and
   experiment_editor.py: the value the experiment editor shows for a path.
   A key of the two dicts is a path, written as the list of its parts *)

\* set_override with `elif` for the second statement: the reason is stored
\* in place of the value
set_override_reason_only(e, field_path, value, reason) ==
    IF reason # ""
    THEN [e EXCEPT !.override_reasons =
                      DictPut(e.override_reasons, field_path, reason)]
    ELSE [e EXCEPT !.overrides = DictPut(e.overrides, field_path, value)]

\* e.set_override(field_path, value, reason): e afterwards
set_override(e, field_path, value, reason) ==
    LET stored == [e EXCEPT !.overrides =
                               DictPut(e.overrides, field_path, value)]
    IN IF reason # ""
       THEN [stored EXCEPT !.override_reasons =
                              DictPut(e.override_reasons, field_path, reason)]
       ELSE stored

\* remove_override without its second statement
remove_override_keeps_reason(e, field_path) ==
    [e EXCEPT !.overrides = DictDel(e.overrides, field_path)]

\* remove_override with clear() for pop(field_path, None)
remove_override_clears(e, field_path) ==
    [e EXCEPT !.overrides = EmptyDict, !.override_reasons = EmptyDict]

\* e.remove_override(field_path): e afterwards (pop with a default never
\* raises)
remove_override(e, field_path) ==
    [e EXCEPT !.overrides = DictDel(e.overrides, field_path),
              !.override_reasons = DictDel(e.override_reasons, field_path)]

\* the value load_experiment sets for field_path, given the resolved
\* template: the override if field_path is a key of overrides, else the
\* resolved template's value
effective_value(e, resolved, field_path) ==
    IF field_path \in DOMAIN e.overrides
    THEN e.overrides[field_path]
    ELSE get_field_value(resolved, field_path).val

\* the paths, values and reasons of the override calls made
OverridePaths ==
    { <<"temperature", "peak_temp">>, <<"gas_flow", "ar_flow">>,
      <<"gas_flow", "h2_flow">> }

OverrideValues == {900, 750}

OverrideReasons == {"", "hotter"}

\* the trail with one more call on it
Logged(op, field_path) ==
    LET c == [op |-> op, field_path |-> field_path, before |-> experiment]
    IN IF Len(trail) < 2 THEN Append(trail, c) ELSE <<trail[2], c>>

\* what the override calls leave alone
backstage == <<templates, nextId, now, walk, experiments, images_dir, editor,
               view>>

\* experiment.set_override(field_path, value, reason) is called
SetOverride ==
    \E field_path \in OverridePaths, value \in OverrideValues,
       reason \in OverrideReasons :
        /\ experiment' = set_override(experiment, field_path, value, reason)
        /\ trail' = Logged("set_override", field_path)
        /\ last' = Call("set_override", <<field_path, value, reason>>, "ok",
                        None, <<>>)
        /\ UNCHANGED backstage
        /\ seen' = <<>>

\* experiment.remove_override(field_path) is called
RemoveOverride ==
    \E field_path \in OverridePaths :
        /\ experiment' = remove_override(experiment, field_path)
        /\ trail' = Logged("remove_override", field_path)
        /\ last' = Call("remove_override", <<field_path>>, "ok", None, <<>>)
        /\ UNCHANGED backstage
        /\ seen' = <<>>

\* the template stores the experiments are based on: a root alone, and a
\* root with a child
OverrideStores ==
    { (1 :> Drawn(1, None, DefaultContent)) }
    \cup { (1 :> Drawn(1, None, DefaultContent)) @@ (2 :> Drawn(2, 1, c)) :
              c \in Contents \ {DefaultContent} }

\* a newly constructed experiment, based on a template id that is stored or
\* not
OverrideInit ==
    /\ templates \in OverrideStores
    /\ nextId = MaxCreates + 2
    /\ now = MaxTime
    /\ last = Call("init", None, "ok", None, <<>>)
    /\ walk = WalkIdle
    /\ experiments = EmptyDict
    /\ images_dir = None
    /\ editor = EditorClosed
    /\ \E name \in ExperimentNames, template_id \in 1..2 :
          experiment = Experiment(MaxCreates + 1, name, template_id, "", None, now)
    /\ trail = <<>>
    /\ seen = <<>>
    /\ view = ViewInit

OverrideNext == SetOverride \/ RemoveOverride

OverrideSpec == OverrideInit /\ [][OverrideNext]_vars

-----------------------------------------------------------------------------

(* experiment.py: the status of an experiment *)

\* e.start_experiment() at time t: e afterwards
start_experiment(e, t) ==
    [e EXCEPT !.status = "in_progress", !.run_date = t]

\* e.complete_experiment(outcome) at time t: e afterwards
complete_experiment(e, outcome, t) ==
    [e EXCEPT !.status = "completed", !.completed_at = t, !.outcome = outcome]

\* e.fail_experiment(notes) at time t: e afterwards
fail_experiment(e, notes, t) ==
    LET failed == [e EXCEPT !.status = "failed", !.completed_at = t,
                            !.outcome = "failed"]
    IN IF notes # "" THEN [failed EXCEPT !.notes = notes] ELSE failed

\* the outcomes and notes the calls are made with
Outcomes == {"success", "partial", "failed", "unknown"}

FailureNotes == {"", "furnace tripped"}

\* what the status calls leave alone
offstatus == <<templates, nextId, walk, experiments, images_dir, editor, trail,
               view>>

\* experiment.start_experiment() is called
StartExperiment ==
    /\ experiment' = start_experiment(experiment, now)
    /\ last' = Call("start_experiment", "", "ok", None, <<>>)
    /\ UNCHANGED <<now, offstatus>>
    /\ seen' = <<>>

\* experiment.complete_experiment(outcome) is called
CompleteExperiment ==
    /\ \E outcome \in Outcomes :
          /\ experiment' = complete_experiment(experiment, outcome, now)
          /\ last' = Call("complete_experiment", outcome, "ok", None, <<>>)
    /\ UNCHANGED <<now, offstatus>>
    /\ seen' = <<>>

\* experiment.fail_experiment(notes) is called
FailExperiment ==
    /\ \E notes \in FailureNotes :
          /\ experiment' = fail_experiment(experiment, notes, now)
          /\ last' = Call("fail_experiment", notes, "ok", None, <<>>)
    /\ UNCHANGED <<now, offstatus>>
    /\ seen' = <<>>

\* time passes between the calls
StatusTick ==
    /\ now < MaxTime + 1
    /\ now' = now + 1
    /\ UNCHANGED <<experiment, last, offstatus>>
    /\ seen' = <<>>

\* a newly constructed experiment (the clock reads 1 at first here, so that
\* no reading of it is the number None is written as)
StatusInit ==
    /\ templates = EmptyDict
    /\ nextId = 2
    /\ now = 1
    /\ last = Call("init", None, "ok", None, <<>>)
    /\ walk = WalkIdle
    /\ experiments = EmptyDict
    /\ images_dir = None
    /\ editor = EditorClosed
    /\ \E name \in ExperimentNames :
          experiment = Experiment(1, name, 1, "", None, now)
    /\ trail = <<>>
    /\ seen = <<>>
    /\ view = ViewInit

StatusNext ==
    StartExperiment \/ CompleteExperiment \/ FailExperiment \/ StatusTick

StatusSpec == StatusInit /\ [][StatusNext]_vars

-----------------------------------------------------------------------------

(* The objects behind the store.  A RecipeTemplate is an object holding its
   scalar attributes and references to six more objects: its four sections,
   its custom_fields dict and its tags list.  An object is named <<owner,
   part>>: the owner of the objects of a stored template is its id, the owner
   of objects a call constructs is a number below 0.  A heap gives every
   object its content; the store is what the heap holds behind the stored
   templates *)

Sections == {"temperature", "gas_flow", "precursor", "substrate"}

Parts == Sections \cup {"custom_fields", "tags"}

Scalars ==
    {"id", "name", "description", "parent_template_id", "created_at",
     "modified_at"}

\* the objects of a template with the value v constructed under owner o
Objects(o, v) ==
    [ident \in {<<o, p>> : p \in Parts \cup {"self"}} |->
        IF ident[2] = "self"
        THEN [f \in Scalars \cup Parts |->
                 IF f \in Scalars THEN v[f] ELSE <<o, f>>]
        ELSE v[ident[2]]]

\* the heap holding the templates of the store T and nothing else
HeapOf(T) ==
    [ident \in {<<i, p>> : i \in DOMAIN T, p \in Parts \cup {"self"}} |->
        Objects(ident[1], T[ident[1]])[ident]]

\* the template seen through the object of owner o
ValueAt(h, o) ==
    [f \in Scalars \cup Parts |->
        IF f \in Scalars THEN h[<<o, "self">>][f] ELSE h[h[<<o, "self">>][f]]]

\* self._templates as the heap h holds it behind the stored ids
StoreOf(h, ids) == [i \in ids |-> ValueAt(h, i)]

\* obj.attr = value for the template object of owner o
SetAttr(h, o, attr, value) ==
    [h EXCEPT ![<<o, "self">>] = [@ EXCEPT ![attr] = value]]

\* a template constructed with the value v as a new object of owner o
Construct(h, o, v) == Objects(o, v) @@ h

\* copy.deepcopy of the template of owner o, the copy being owner n
DeepCopy(h, o, n) == Construct(h, n, ValueAt(h, o))

\* _merge_dataclass assigning base's fields to overlay itself, and returning
\* a copy of it
AssignFieldsToOverlay(h, base, overlay, new) ==
    (overlay :> merge_dataclass(h[overlay], h[base]))
    @@ (new :> merge_dataclass(h[overlay], h[base]))
    @@ h

\* _merge_dataclass(base, overlay) on the objects base and overlay: `result =
\* copy.deepcopy(base)` is the object new, every field of overlay is assigned
\* to it, and it is returned
AssignFields(h, base, overlay, new) ==
    (new :> merge_dataclass(h[base], h[overlay])) @@ h

RECURSIVE MergeSections(_, _, _, _, _)
\* `result.<section> = self._merge_dataclass(result.<section>,
\* overlay.<section>)` for the sections todo; the copies are owned by m
MergeSections(h, result, overlay, m, todo) ==
    IF todo = {} THEN h
    ELSE LET s == CHOOSE x \in todo : TRUE
             merged == AssignFields(h, h[<<result, "self">>][s],
                                    h[<<overlay, "self">>][s], <<m, s>>)
         IN MergeSections(SetAttr(merged, result, s, <<m, s>>),
                          result, overlay, m, todo \ {s})

\* _merge_templates(base, overlay) on the template objects of owners base and
\* overlay: the heaps it may leave, the result being owner n (m owns the
\* section copies and the new tags list); one heap for each order of the tags
MergeObjects(h, base, overlay, n, m) ==
    LET copied == DeepCopy(h, base, n)
        merged == MergeSections(copied, n, overlay, m, Sections)
        dict == merged[<<n, "self">>].custom_fields
        updated == [merged EXCEPT ![dict] =
                       dict_update(@, merged[merged[<<overlay, "self">>].custom_fields])]
        mine == ValueAt(updated, n)
        theirs == ValueAt(updated, overlay)
    IN { [ ((<<m, "tags">> :> tags) @@ updated) EXCEPT
              ![<<n, "self">>] =
                 [@ EXCEPT !.tags = <<m, "tags">>,
                           !.name = theirs.name,
                           !.description =
                               merge_description(mine.description, theirs.description),
                           !.parent_template_id = theirs.parent_template_id,
                           !.created_at = theirs.created_at,
                           !.modified_at = theirs.modified_at] ]
         : tags \in merge_tags(mine.tags, theirs.tags) }

RECURSIVE FoldObjects(_, _, _)
\* the loop of resolve_template over reversed(chain) from chain[i] down, on
\* the objects: resolved is owner -1 at first and owner -2i after chain[i]
\* is merged
FoldObjects(chain, i, heaps) ==
    IF i = 0 THEN heaps
    ELSE FoldObjects(chain, i - 1,
            UNION { MergeObjects(h, IF i = Len(chain) THEN -1 ELSE -2 * (i + 1),
                                 chain[i].id, -2 * i, -2 * i - 1)
                    : h \in heaps })

\* resolve_template(template_id) called at time t on the heap h of the store
\* over ids: how it may end, with the template it returns and the heap it
\* leaves
ResolveObjects(h, ids, template_id, t) ==
    LET T == StoreOf(h, ids) IN
    IF template_id \notin ids
    THEN {[outcome |-> "NotFound", ret |-> None, heap |-> h]}
    ELSE LET c == get_inheritance_chain(T, template_id) IN
         IF c.pc = "raise"
         THEN {[outcome |-> "CircularInheritance", ret |-> None, heap |-> h]}
         ELSE LET start == Construct(h, -1,
                              RecipeTemplate(template_id, T[template_id].name, "", t))
              IN {[outcome |-> "ok", ret |-> ValueAt(after, -2), heap |-> after] :
                     after \in FoldObjects(c.chain, Len(c.chain), {start})}

-----------------------------------------------------------------------------

(* The reading calls of the store, each run on the objects of a drawn store *)

\* get_template(template_id): the stored object (its id) or None
get_template(T, template_id) ==
    IF template_id \in DOMAIN T THEN template_id ELSE None

\* list_templates(): the stored objects (their ids) the list holds, each once
list_templates(T) == DOMAIN T

\* get_root_templates(): the stored objects (their ids) the list holds
get_root_templates(T) ==
    {id \in DOMAIN T : T[id].parent_template_id = None}

\* get_children(template_id): the stored objects (their ids) the list holds
get_children(T, template_id) ==
    {id \in DOMAIN T : T[id].parent_template_id = template_id}

\* what a drawn template holds here
ReadContents == Contents \ {DefaultContent}

\* any store over some of the ids a caller may name, with any parent
\* references among them
ReadInit ==
    /\ \E S \in SUBSET CallIds :
          \E g \in [S -> ({None} \cup CallIds) \X ReadContents] :
             templates = DrawnStore(S, g)
    /\ nextId = MaxCreates + 1
    /\ now = MaxTime
    /\ last = Call("init", None, "ok", None, <<>>)
    /\ walk = WalkIdle
    /\ OthersInit

\* a reading call ended: what the objects of the store hold afterwards
Read(op, arg, outcome, ret, heap) ==
    /\ templates' = StoreOf(heap, DOMAIN templates)
    /\ last' = Call(op, arg, outcome, ret, <<>>)

ReadResolve ==
    /\ last.op = "init"
    /\ \E template_id \in CallIds :
          \E o \in ResolveObjects(HeapOf(templates), DOMAIN templates,
                                  template_id, now) :
             Read("resolve_template", template_id, o.outcome, o.ret, o.heap)
    /\ UNCHANGED <<nextId, now, walk, others>>
    /\ seen' = <<>>

ReadChain ==
    /\ last.op = "init"
    /\ \E template_id \in CallIds :
          LET c == get_inheritance_chain(templates, template_id) IN
          Read("get_inheritance_chain", template_id,
               IF c.pc = "raise" THEN "CircularInheritance" ELSE "ok",
               [i \in 1..Len(c.chain) |-> c.chain[i].id], HeapOf(templates))
    /\ UNCHANGED <<nextId, now, walk, others>>
    /\ seen' = <<>>

ReadEffectiveValue ==
    /\ last.op = "init"
    /\ \E template_id \in CallIds, path \in QueryPaths :
          LET ev == get_effective_value(templates, template_id, path, nextId, now)
          IN Read("get_effective_value", <<template_id, path>>, ev.outcome,
                  <<ev.value, ev.source>>,
                  IF ev.outcome = "ok" /\ ev.source = None
                  THEN Construct(HeapOf(templates), -1,
                                 RecipeTemplate(nextId, "", "", now))
                  ELSE HeapOf(templates))
    /\ UNCHANGED <<nextId, now, walk, others>>
    /\ seen' = <<>>

ReadDiff ==
    /\ last.op = "init"
    /\ \E template_id_1 \in CallIds, template_id_2 \in CallIds :
          \E o1 \in ResolveObjects(HeapOf(templates), DOMAIN templates,
                                   template_id_1, now) :
             IF o1.outcome # "ok"
             THEN Read("diff_templates", <<template_id_1, template_id_2>>,
                       o1.outcome, <<>>, o1.heap)
             ELSE \E o2 \in ResolveObjects(HeapOf(StoreOf(o1.heap, DOMAIN templates)),
                                           DOMAIN templates, template_id_2, now) :
                     Read("diff_templates", <<template_id_1, template_id_2>>,
                          o2.outcome,
                          IF o2.outcome = "ok"
                          THEN DiffLoop(o1.ret, o2.ret, get_all_field_paths)
                          ELSE <<>>,
                          o2.heap)
    /\ UNCHANGED <<nextId, now, walk, others>>
    /\ seen' = <<>>

ReadGet ==
    /\ last.op = "init"
    /\ \E template_id \in CallIds :
          Read("get_template", template_id, "ok",
               get_template(templates, template_id), HeapOf(templates))
    /\ UNCHANGED <<nextId, now, walk, others>>
    /\ seen' = <<>>

ReadList ==
    /\ last.op = "init"
    /\ Read("list_templates", None, "ok", list_templates(templates),
            HeapOf(templates))
    /\ UNCHANGED <<nextId, now, walk, others>>
    /\ seen' = <<>>

ReadRoots ==
    /\ last.op = "init"
    /\ Read("get_root_templates", None, "ok", get_root_templates(templates),
            HeapOf(templates))
    /\ UNCHANGED <<nextId, now, walk, others>>
    /\ seen' = <<>>

ReadChildren ==
    /\ last.op = "init"
    /\ \E template_id \in CallIds :
          Read("get_children", template_id, "ok",
               get_children(templates, template_id), HeapOf(templates))
    /\ UNCHANGED <<nextId, now, walk, others>>
    /\ seen' = <<>>

ReadNext ==
    \/ ReadResolve \/ ReadChain \/ ReadEffectiveValue \/ ReadDiff
    \/ ReadGet \/ ReadList \/ ReadRoots \/ ReadChildren

ReadSpec == ReadInit /\ [][ReadNext]_vars

-----------------------------------------------------------------------------

(* experiment_editor.py: experiments whose template is deleted.  The view
   holds the stored Experiment by reference (get_experiment returns it):
   current_experiment is the id it is stored under.  The visibility of the
   sections and the date label are not followed *)

\* the range of the spin box of a parameter field (_create_params_section)
FieldRange(field_path) ==
    IF field_path = <<"temperature", "peak_temp">> THEN <<0, 1200>>
    ELSE IF field_path = <<"gas_flow", "ar_flow">> THEN <<0, 500>>
    ELSE <<0, 100>>

\* field.set_inherited_value(value)
set_inherited_value(field, value) == [field EXCEPT !.inherited_value = value]

\* field.set_value(value, is_override) of a float field: the spin box takes
\* 0.0 for None and keeps the value within its range
set_value(field_path, field, value, is_override) ==
    LET v  == IF value = None THEN 0 ELSE value
        lo == FieldRange(field_path)[1]
        hi == FieldRange(field_path)[2]
    IN [field EXCEPT !.value = IF v < lo THEN lo ELSE IF v > hi THEN hi ELSE v,
                     !.is_overridden = is_override]

\* the loop of load_experiment over _param_fields, given the resolved template
LoadedFields(e, resolved) ==
    [field_path \in ParamFields |->
        LET inherited == get_field_value(resolved, field_path).val
            field == set_inherited_value(view.fields[field_path], inherited)
        IN IF field_path \in DOMAIN e.overrides
           THEN set_value(field_path, field, e.overrides[field_path], TRUE)
           ELSE set_value(field_path, field, inherited, FALSE)]

\* load_experiment(experiment_id): returns at once for an id that is not
\* stored; otherwise sets the header and the template label, fills the fields
\* when the template is stored, and then reads experiment.optical_images, an
\* attribute Experiment does not have: the call ends there with AttributeError
load_experiment(experiment_id) ==
    IF experiment_id \notin DOMAIN experiments
    THEN /\ last' = Call("load_experiment", experiment_id, "ok", None, <<>>)
         /\ view' = view
    ELSE LET e == experiments[experiment_id]
             template == get_template(templates, e.template_id)
             header == [view EXCEPT !.current_experiment = experiment_id,
                                    !.name_input = e.name]
         IN IF template # None
            THEN \E r \in resolve_template(templates, template, now) :
                   LET based == [header EXCEPT !.template_name_label =
                                    "(based on: " \o templates[template].name \o ")"]
                   IN IF r.outcome = "ok"
                      THEN /\ view' = [based EXCEPT
                                          !.fields = LoadedFields(e, r.ret)]
                           /\ last' = Call("load_experiment", experiment_id,
                                           "AttributeError", None, <<>>)
                      ELSE /\ view' = based
                           /\ last' = Call("load_experiment", experiment_id,
                                           r.outcome, None, <<>>)
            ELSE /\ view' = [header EXCEPT !.template_name_label =
                                              "(template not found)"]
                 /\ last' = Call("load_experiment", experiment_id,
                                 "AttributeError", None, <<>>)

\* _on_param_changed(field_path, value): nothing without an experiment; None
\* removes the override; another value is compared with the resolved
\* template's when the template is stored, and nothing is done when it is not
on_param_changed(field_path, value) ==
    IF view.current_experiment = None
    THEN /\ last' = Call("_on_param_changed", <<field_path, value>>, "ok", None, <<>>)
         /\ experiments' = experiments
    ELSE LET id == view.current_experiment
             e  == experiments[id]
             template == get_template(templates, e.template_id)
         IN IF value = None
            THEN /\ experiments' = DictPut(experiments, id,
                                           remove_override(e, field_path))
                 /\ last' = Call("_on_param_changed", <<field_path, value>>,
                                 "ok", None, <<>>)
            ELSE IF template # None
            THEN \E r \in resolve_template(templates, template, now) :
                   IF r.outcome = "ok"
                   THEN LET inherited == get_field_value(r.ret, field_path).val
                        IN /\ experiments' = DictPut(experiments, id,
                                  IF value # inherited
                                  THEN set_override(e, field_path, value, "")
                                  ELSE remove_override(e, field_path))
                           /\ last' = Call("_on_param_changed",
                                           <<field_path, value>>, "ok", None, <<>>)
                   ELSE /\ experiments' = experiments
                        /\ last' = Call("_on_param_changed",
                                        <<field_path, value>>, r.outcome, None, <<>>)
            ELSE /\ experiments' = experiments
                 /\ last' = Call("_on_param_changed", <<field_path, value>>,
                                 "ok", None, <<>>)

\* the ids the experiments of a session are stored under
ExperimentIds == {MaxCreates + 1, MaxCreates + 2}

\* the values typed into a parameter field; None is what "Reset" sends
ParamValues == {None, 900}

\* an experiment is picked in the list
LoadExperiment ==
    /\ \E experiment_id \in ExperimentIds : load_experiment(experiment_id)
    /\ UNCHANGED <<templates, nextId, now, walk, experiments, images_dir,
                   editor, experiment, trail>>
    /\ seen' = <<>>

\* a parameter field of the experiment editor changes
ParamChanged ==
    /\ \E field_path \in ParamFields, value \in ParamValues :
          on_param_changed(field_path, value)
    /\ UNCHANGED <<templates, nextId, now, walk, images_dir, editor, experiment,
                   trail, view>>
    /\ seen' = <<>>

\* a template store with a root alone or a root and a child, and stored
\* experiments based on them, without overrides or with one
DanglingInit ==
    /\ templates \in OverrideStores
    /\ nextId = MaxCreates + 3
    /\ now = MaxTime
    /\ last = Call("init", None, "ok", None, <<>>)
    /\ walk = WalkIdle
    /\ \E S \in SUBSET ExperimentIds :
          \E g \in [S -> DOMAIN templates], o \in [S -> BOOLEAN] :
             experiments =
                [i \in S |->
                    LET e == Experiment(i, "New Experiment", g[i], "", None, now)
                    IN IF o[i]
                       THEN set_override(e, <<"temperature", "peak_temp">>, 900,
                                         "hotter")
                       ELSE e]
    /\ images_dir = None
    /\ editor = EditorClosed
    /\ experiment = None
    /\ trail = <<>>
    /\ seen = <<>>
    /\ view = ViewInit

DanglingNext == Delete \/ LoadExperiment \/ ParamChanged

DanglingSpec == DanglingInit /\ [][DanglingNext]_vars

-----------------------------------------------------------------------------

(* template_manager.py, recipe.py: persistence.  A value of custom_fields is
   written with its Python type and its items; json writes a list and a tuple
   as an array, reads an array as a list, and refuses a set.  Strings,
   numbers (nan included) and None are read back as they were written *)

\* the values a caller may store in custom_fields
CustomValues ==
    { [py |-> "int",   items |-> <<1>>],
      [py |-> "list",  items |-> <<1, 2>>],
      [py |-> "tuple", items |-> <<1, 2>>],
      [py |-> "set",   items |-> <<1, 2>>] }

\* whether json.dump can write the value
Serializable(v) == v.py \in {"int", "list", "tuple"}

\* the JSON text json.dump writes for a value of custom_fields
json_dump(v) ==
    IF v.py = "int" THEN [js |-> "number", items |-> v.items]
    ELSE [js |-> "array", items |-> v.items]

\* the value json.load reads from the JSON text
json_load(j) ==
    IF j.js = "number" THEN [py |-> "int", items |-> j.items]
    ELSE [py |-> "list", items |-> j.items]

\* RecipeTemplate.to_dict(): custom_fields and tags are the template's own
to_dict(t) ==
    [id |-> t.id, name |-> t.name, description |-> t.description,
     parent_template_id |-> t.parent_template_id,
     created_at |-> t.created_at, modified_at |-> t.modified_at,
     temperature |-> [f \in DOMAIN TemperatureProfile |-> t.temperature[f]],
     gas_flow |-> [f \in DOMAIN GasFlow |-> t.gas_flow[f]],
     precursor |-> [f \in DOMAIN PrecursorSetup |-> t.precursor[f]],
     substrate |-> [f \in DOMAIN SubstrateInfo |-> t.substrate[f]],
     custom_fields |-> t.custom_fields, tags |-> t.tags]

\* data.get(key, default)
DictGet(data, key, default) == IF key \in DOMAIN data THEN data[key] ELSE default

\* RecipeTemplate.from_dict(data) called at time t, uuid4 handing out fresh_id
from_dict(data, fresh_id, t) ==
    LET temp_data      == DictGet(data, "temperature", EmptyDict)
        gas_data       == DictGet(data, "gas_flow", EmptyDict)
        precursor_data == DictGet(data, "precursor", EmptyDict)
        substrate_data == DictGet(data, "substrate", EmptyDict)
    IN [id |-> DictGet(data, "id", fresh_id),
        name |-> DictGet(data, "name", ""),
        description |-> DictGet(data, "description", ""),
        parent_template_id |-> DictGet(data, "parent_template_id", None),
        created_at |-> DictGet(data, "created_at", t),
        modified_at |-> DictGet(data, "modified_at", t),
        temperature |-> [f \in DOMAIN TemperatureProfile |->
                            DictGet(temp_data, f, TemperatureProfile[f])],
        gas_flow |-> [f \in DOMAIN GasFlow |-> DictGet(gas_data, f, GasFlow[f])],
        precursor |-> [f \in DOMAIN PrecursorSetup |->
                          DictGet(precursor_data, f, PrecursorSetup[f])],
        substrate |-> [f \in DOMAIN SubstrateInfo |->
                          DictGet(substrate_data, f, SubstrateInfo[f])],
        custom_fields |-> DictGet(data, "custom_fields", EmptyDict),
        tags |-> DictGet(data, "tags", <<>>)]

\* the file as json.dump leaves it when it raises part way
Truncated == [valid |-> FALSE, version |-> 1, templates |-> EmptyDict]

\* save(path): how it ends and the file it leaves
save(T) ==
    IF \A tid \in DOMAIN T : \A k \in DOMAIN T[tid].custom_fields :
          Serializable(T[tid].custom_fields[k])
    THEN [outcome |-> "ok",
          file |-> [valid |-> TRUE, version |-> 1,
                    templates |->
                       [tid \in DOMAIN T |->
                           [to_dict(T[tid]) EXCEPT !.custom_fields =
                               [k \in DOMAIN @ |-> json_dump(@[k])]]]]]
    ELSE [outcome |-> "TypeError", file |-> Truncated]

\* load(path) of an existing file into a store holding T, at time t: how it
\* ends and the store afterwards
load(T, file, fresh_id, t) ==
    IF ~file.valid THEN [outcome |-> "JSONDecodeError", templates |-> T]
    ELSE [outcome |-> "ok",
          templates |->
             [tid \in DOMAIN file.templates |->
                 from_dict([file.templates[tid] EXCEPT !.custom_fields =
                               [k \in DOMAIN @ |-> json_load(@[k])]],
                           fresh_id, t)]]

\* a float field of the template holds nan
HasNan(t) ==
    \E s \in Sections : \E f \in DOMAIN t[s] \cap FloatFields : t[s][f] = nan

\* `t1 == t2` of two RecipeTemplate objects that share no object: the fields
\* are compared with ==, and nan is equal to nothing
py_eq(t1, t2) == t1 = t2 /\ ~HasNan(t1)

\* the entities a caller may hand to update_template for a stored id: the
\* stored object with a value written to custom_fields or to peak_temp
ContentInputs(id) ==
    IF id \notin DOMAIN templates THEN {}
    ELSE {[templates[id] EXCEPT !.custom_fields = DictPut(@, "k", v)] :
             v \in CustomValues}
         \cup {[templates[id] EXCEPT !.temperature.peak_temp = v] :
                  v \in {700, nan}}

UpdateContent ==
    /\ \E id \in CallIds : \E template \in ContentInputs(id) :
          update_template(template)
    /\ UNCHANGED others

\* save(path), then load(path) on a TemplateManager just constructed: ret is
\* the _templates of the second manager
SaveLoad ==
    /\ LET saved  == save(templates)
           loaded == load(EmptyDict, saved.file, nextId, now)
       IN last' = IF saved.outcome # "ok"
                  THEN Call("save_load", None, saved.outcome, EmptyDict, <<>>)
                  ELSE Call("save_load", None, loaded.outcome,
                            loaded.templates, <<>>)
    /\ UNCHANGED <<templates, nextId, now, walk>>
    /\ seen' = <<>>
    /\ UNCHANGED others

PersistNext == Create \/ Update \/ UpdateContent \/ Delete \/ SaveLoad

PersistSpec == Init /\ [][PersistNext]_vars

-----------------------------------------------------------------------------

(* template_manager.py: the field accessor called on a template *)

\* the paths of the calls: the known paths, custom_fields.<key> for a key
\* that is stored or not and for a key named as a method of dict, and paths
\* that name no attribute and no key
CustomPaths ==
    { <<"custom_fields", "k">>, <<"custom_fields", "new">>,
      <<"custom_fields", "keys">> }

StrayPaths ==
    { <<"nosuch">>, <<"nosuch", "x">>, <<"temperature", "nosuch">>,
      <<"custom_fields", "zz">>, <<"parent_template_id", "x">>,
      <<"tags", "0">> }

AccessPaths ==
    {get_all_field_paths[i] : i \in 1..Len(get_all_field_paths)}
    \cup CustomPaths \cup StrayPaths

\* the values set
AccessValues == {900, 1}

\* the template the accessor is called on
Subject == templates[1]

\* _set_field_value(template, path, value) is called, once
SetField ==
    /\ last.op = "init"
    /\ \E path \in AccessPaths, value \in AccessValues :
          LET r == set_field_value(Subject, path, value) IN
          /\ templates' = (1 :> r.obj)
          /\ last' = Call("_set_field_value", [path |-> path, value |-> value],
                          IF r.raised THEN "AttributeError"
                          ELSE IF r.ok THEN "True" ELSE "False",
                          NoneObj, <<>>)
    /\ UNCHANGED <<nextId, now, walk>>
    /\ seen' = <<>>
    /\ UNCHANGED others

\* _get_field_value(template, path) is called
GetField ==
    /\ \E path \in AccessPaths :
          last' = Call("_get_field_value", [path |-> path, value |-> None],
                       "ok", get_field_value(Subject, path), <<>>)
    /\ UNCHANGED <<templates, nextId, now, walk>>
    /\ seen' = <<>>
    /\ UNCHANGED others

\* one template, a root or with a parent reference, with any of the contents
AccessInit ==
    /\ \E p \in {None, 2}, c \in Contents : templates = (1 :> Drawn(1, p, c))
    /\ nextId = 2
    /\ now = MaxTime
    /\ last = Call("init", None, "ok", None, <<>>)
    /\ walk = WalkIdle
    /\ OthersInit

AccessNext == SetField \/ GetField

AccessSpec == AccessInit /\ [][AccessNext]_vars

-----------------------------------------------------------------------------

(* template_list.py: the tree of the template list.  An item of the tree is
   written as the ids from its top-level item down to itself *)

RECURSIVE add_children(_, _)
\* _add_children(item, item's id): item with the items added under it; a
\* template reached from a root is on no cycle, so the recursion ends
add_children(T, item) ==
    {item} \cup UNION { add_children(T, Append(item, child)) :
                          child \in get_children(T, item[Len(item)]) }

\* _refresh_tree(): the items the tree holds afterwards
refresh_tree(T) ==
    UNION { add_children(T, <<root>>) : root \in get_root_templates(T) }

-----------------------------------------------------------------------------

\* S and everything reached from it in at most n parent references
Closure(T, S, n) ==
    IF n = 0 THEN S ELSE Closure(T, S \cup ParentsOf(T, S), n - 1)

\* the ids reached from id by one parent reference or more
Ancestors(T, id) == Closure(T, ParentsOf(T, {id}), Cardinality(DOMAIN T))

\* following parent references from id comes back to id
OnCycle(T, id) == id \in DOMAIN T /\ id \in Ancestors(T, id)

\* following parent references from id re-visits some id
CycleReachable(T, id) ==
    \E x \in {id} \cup Ancestors(T, id) : OnCycle(T, x)

\* the parent references form a forest
Forest(T) == \A id \in DOMAIN T : ~OnCycle(T, id)

\* the last call was op, has ended, and ended with outcome
Ended(op, outcome) == last.op = op /\ last.outcome = outcome

\* resolve_template returned a template for a stored template
Resolved == Ended("resolve_template", "ok")

\* the chain of the template the last call was about
ChainOfLast == get_inheritance_chain(templates, last.arg).chain

-----------------------------------------------------------------------------
(* The claims *)

\* C1 (as claimed): in every state of the store reached by create, update
\* and delete the parent references form a forest: no template is its own
\* parent, and following parent references never re-visits an id.
C1_Forest == Forest(templates)

\* C2 (as claimed): after a successful update no template's inheritance chain
\* re-visits an id: an update naming the template itself or a descendant as
\* parent is rejected.
C2_UpdateKeepsChainsAcyclic ==
    Ended("update", "ok") =>
        \A id \in DOMAIN templates :
            get_inheritance_chain(templates, id).pc # "raise"

\* C3: every call of get_inheritance_chain and of resolve_template ends,
\* whatever the store holds; the loop never takes more turns than there are
\* stored templates; and the call ends with CircularInheritance exactly when
\* following parent references from its id re-visits an id.
C3_ResolverTerminates ==
    /\ [](walk.pc = "loop" => Len(walk.chain) <= Cardinality(DOMAIN templates))
    /\ []((last.op \in {"get_inheritance_chain", "resolve_template"}
            /\ last.outcome # "running")
          => (last.outcome = "CircularInheritance"
                <=> CycleReachable(templates, last.arg)))
    /\ ((walk.pc # "idle") ~> (walk.pc = "idle"))

\* C3's case: resolve_template ended with CircularInheritance for a template
\* that is not itself on the cycle its ancestors form
C3_Witness ==
    /\ Ended("resolve_template", "CircularInheritance")
    /\ ~OnCycle(templates, last.arg)
    /\ walk.pc = "idle"

C5_RootResolvesToItself ==
    (Resolved /\ templates[last.arg].parent_template_id = None)
        => last.ret = templates[last.arg]

\* C5 (amended): a resolved root template equals the stored template in
\* every field but the tag list, which holds the stored template's tags,
\* each once, in some order.
C5_RootResolvesToItselfUpToTags ==
    (Resolved /\ templates[last.arg].parent_template_id = None)
        => /\ [last.ret EXCEPT !.tags = <<>>]
                = [templates[last.arg] EXCEPT !.tags = <<>>]
           /\ ToSet(last.ret.tags) = ToSet(templates[last.arg].tags)
           /\ Len(last.ret.tags) = Cardinality(ToSet(last.ret.tags))

\* C5's case: a root template with custom fields and two tags was resolved
C5_Witness ==
    /\ Resolved
    /\ templates[last.arg].parent_template_id = None
    /\ DOMAIN templates[last.arg].custom_fields # {}
    /\ Cardinality(ToSet(templates[last.arg].tags)) = 2

\* C6 (as claimed): the name, description, parent reference and timestamps
\* of the resolved template are the template's own, also when its
\* description is empty and an ancestor's is not.
C6_MetadataFromTemplate ==
    Resolved =>
        /\ last.ret.name = templates[last.arg].name
        /\ last.ret.description = templates[last.arg].description
        /\ last.ret.parent_template_id = templates[last.arg].parent_template_id
        /\ last.ret.created_at = templates[last.arg].created_at
        /\ last.ret.modified_at = templates[last.arg].modified_at

\* the place of the template of the chain nearest to its head that defines
\* the custom field key
Nearest(chain, key) ==
    CHOOSE i \in 1..Len(chain) :
        /\ key \in DOMAIN chain[i].custom_fields
        /\ \A j \in 1..(i - 1) : key \notin DOMAIN chain[j].custom_fields

\* C7: the custom fields of the resolved template are the keys some template
\* of the chain defines, each with the value of the nearest template that
\* defines it.
C7_CustomFieldsNearestWins ==
    Resolved =>
        /\ DOMAIN last.ret.custom_fields
             = UNION {DOMAIN ChainOfLast[i].custom_fields : i \in 1..Len(ChainOfLast)}
        /\ \A key \in DOMAIN last.ret.custom_fields :
              last.ret.custom_fields[key]
                = ChainOfLast[Nearest(ChainOfLast, key)].custom_fields[key]

\* C7's case: the template and its parent define the same key with different
\* values, and the parent defines a key the template does not
C7_Witness ==
    /\ Resolved
    /\ Len(ChainOfLast) >= 2
    /\ \E key \in DOMAIN ChainOfLast[1].custom_fields :
          /\ key \in DOMAIN ChainOfLast[2].custom_fields
          /\ ChainOfLast[1].custom_fields[key] # ChainOfLast[2].custom_fields[key]
    /\ DOMAIN ChainOfLast[2].custom_fields \ DOMAIN ChainOfLast[1].custom_fields # {}

\* C8: the tags of the resolved template are, as a set, the union of the
\* tags of the chain's templates, and none occurs twice.
C8_TagsUnion ==
    Resolved =>
        /\ ToSet(last.ret.tags)
             = UNION {ToSet(ChainOfLast[i].tags) : i \in 1..Len(ChainOfLast)}
        /\ Len(last.ret.tags) = Cardinality(ToSet(last.ret.tags))

\* C8's case: a template that lists a tag twice, with a parent that adds
\* another tag
C8_Witness ==
    /\ Resolved
    /\ Len(ChainOfLast) >= 2
    /\ Len(ChainOfLast[1].tags) > Cardinality(ToSet(ChainOfLast[1].tags))
    /\ ToSet(ChainOfLast[2].tags) \ ToSet(ChainOfLast[1].tags) # {}

\* C9 (as claimed): for every stored template the inheritance chain starts
\* with the template, continues with the stored template each element names
\* as parent, and ends with a template without parent reference.
C9_ChainShape ==
    \A id \in DOMAIN templates :
        LET c == get_inheritance_chain(templates, id) IN
        /\ c.pc = "return"
        /\ Len(c.chain) >= 1
        /\ c.chain[1] = templates[id]
        /\ \A i \in 1..(Len(c.chain) - 1) :
              /\ c.chain[i].parent_template_id \in DOMAIN templates
              /\ c.chain[i + 1] = templates[c.chain[i].parent_template_id]
        /\ c.chain[Len(c.chain)].parent_template_id = None

C11_NotFoundChangesNothing ==
    [][/\ \A name \in CreateNames, parent_id \in CallIds :
             (/\ last'.op = "create"
              /\ create_template(name, parent_id)
              /\ parent_id \notin DOMAIN templates)
                => /\ last'.outcome = "NotFound"
                   /\ templates' = templates
       /\ \A id \in CallIds : \A template \in UpdateInputs(id) :
             (/\ last'.op = "update"
              /\ update_template(template)
              /\ id \notin DOMAIN templates)
                => /\ last'.outcome = "NotFound"
                   /\ templates' = templates]_vars

\* C11's case: update_template ended with NotFound while the store holds a
\* template last modified before now, so that a stamp would show
C11_Witness ==
    /\ Ended("update", "NotFound")
    /\ last.arg \notin DOMAIN templates
    /\ \E t \in DOMAIN templates : templates[t].modified_at < now

\* C12: after update_template(t) succeeds, the template stored under t.id is
\* t with modified_at set to the time of the call, whatever was stored
\* before, and every other stored template is as it was.
C12_UpdateReplaces ==
    [][\A id \in CallIds : \A template \in UpdateInputs(id) :
          (/\ last'.op = "update"
           /\ update_template(template)
           /\ id \in DOMAIN templates)
             => /\ DOMAIN templates' = DOMAIN templates
                /\ templates'[id] = [template EXCEPT !.modified_at = now]
                /\ \A o \in DOMAIN templates \ {id} :
                      templates'[o] = templates[o]]_vars

\* C12's case: template 1, created at time 0 before template 2, was updated
\* with an entity constructed at time 1: nothing of the stored version is left
C12_Witness ==
    /\ Ended("update", "ok")
    /\ last.arg = 1
    /\ 2 \in DOMAIN templates
    /\ templates[2].created_at = 0
    /\ templates[1].created_at = 1
    /\ templates[1].modified_at = 1

\* the topic a store call announces its effect under
TopicOf(op) ==
    CASE op = "create" -> "template_created"
      [] op = "update" -> "template_modified"
      [] op = "delete" -> "template_deleted"
      [] op = "create_experiment" -> "experiment_created"
      [] op = "update_experiment" -> "experiment_modified"
      [] op = "delete_experiment" -> "experiment_deleted"

\* the events that tell what a step did to a store S holding `kind` entities
EventsFor(kind, S, S2) ==
    {Event(kind \o "_created", i) : i \in DOMAIN S2 \ DOMAIN S}
    \cup {Event(kind \o "_deleted", i) : i \in DOMAIN S \ DOMAIN S2}
    \cup {Event(kind \o "_modified", i) :
             i \in {j \in DOMAIN S \cap DOMAIN S2 : S2[j] # S[j]}}

\* C13: over any sequence of create, update and delete calls of the template
\* store and of the experiment store, a call that succeeds emits exactly one
\* event, its topic that of the operation and its id that of the entity
\* created, replaced or removed; a call that fails or does nothing (NotFound,
\* CycleDetected, HasChildren, an unknown id) emits none and leaves both
\* stores as they were; and whatever a call did to a store is what its event
\* says.
C13_OneEventPerMutation ==
    [][LET done == last'.outcome \in {"ok", "True"}
           id == IF last'.op \in {"create", "create_experiment"}
                 THEN last'.ret ELSE last'.arg
           told == EventsFor("template", templates, templates')
                   \cup EventsFor("experiment", experiments, experiments')
       IN /\ done => last'.events = <<Event(TopicOf(last'.op), id)>>
          /\ ~done => last'.events = <<>>
          /\ \A ev \in told : last'.events = <<ev>>
          /\ (done /\ last'.op = "create") => id \in DOMAIN templates' \ DOMAIN templates
          /\ (done /\ last'.op = "create_experiment")
                => id \in DOMAIN experiments' \ DOMAIN experiments
          /\ (done /\ last'.op = "update") => id \in DOMAIN templates'
          /\ (done /\ last'.op = "update_experiment") => id \in DOMAIN experiments'
          /\ (done /\ last'.op = "delete") => id \in DOMAIN templates \ DOMAIN templates'
          /\ (done /\ last'.op = "delete_experiment")
                => id \in DOMAIN experiments \ DOMAIN experiments']_vars

\* C13's case: create_template ended with CycleDetected, emitting nothing,
\* in a session that also holds an experiment
C13_Witness ==
    /\ Ended("create", "CycleDetected")
    /\ last.events = <<>>
    /\ DOMAIN experiments # {}
    /\ DOMAIN templates # {}

\* C14 (as claimed): the state of a stored template changes only by a
\* successful update_template call for it, which stamps modified_at with the
\* time of the call; no other step of the editor (a template loaded, the
\* parent selection or a field changed, the edit cancelled) changes a stored
\* template.
C14_OnlyUpdateChanges ==
    [][\A id \in DOMAIN templates \cap DOMAIN templates' :
          templates'[id] # templates[id]
             => /\ last'.op = "update"
                /\ update_template(templates'[id])]_vars

RECURSIVE NearestBearing(_, _, _, _)
\* the id of the first template, from id along at most n parent references,
\* whose value at path is not None; None when the walk leaves the store first
NearestBearing(T, id, path, n) ==
    IF id = None \/ id \notin DOMAIN T \/ n = 0 THEN None
    ELSE IF get_field_value(T[id], path).kind # "None" THEN id
    ELSE NearestBearing(T, T[id].parent_template_id, path, n - 1)

\* what the walk nearest-first yields for id and path: the value and id of
\* the first bearing template, or the all-defaults value and no source
NearestFirst(T, id, path) ==
    LET source == NearestBearing(T, id, path, Cardinality(DOMAIN T)) IN
    IF source # None
    THEN <<get_field_value(T[source], path), source>>
    ELSE <<get_field_value(RecipeTemplate(nextId, "", "", now), path), None>>

C16_DiffReflexive ==
    (/\ last.op = "diff_templates"
     /\ last.arg[1] = last.arg[2]
     /\ last.arg[1] \in DOMAIN templates
     /\ ~CycleReachable(templates, last.arg[1]))
       => /\ last.outcome = "ok"
          /\ last.ret = <<>>

\* the place of a known path in get_all_field_paths()
PathPlace(path) ==
    CHOOSE k \in 1..Len(get_all_field_paths) : get_all_field_paths[k] = path

\* the place of a section in the order temperature, gas_flow, precursor,
\* substrate
SectionPlace(section) ==
    CHOOSE k \in 1..4 :
       <<"temperature", "gas_flow", "precursor", "substrate">>[k] = section

\* diffs holds exactly one entry, with the two values, for each known path
\* whose values in r1 and r2 differ under `!=`, none for another path, and
\* the entries follow the order of the known paths
DiffOf(diffs, r1, r2) ==
    LET known == get_all_field_paths
        differing == {k \in 1..Len(known) :
                         py_ne(known[k], get_field_value(r1, known[k]),
                               get_field_value(r2, known[k]))}
    IN /\ Len(diffs) = Cardinality(differing)
       /\ \A k \in differing :
             \E n \in 1..Len(diffs) :
                diffs[n] = [field_path |-> known[k],
                            value_1 |-> get_field_value(r1, known[k]).val,
                            value_2 |-> get_field_value(r2, known[k]).val]
       /\ \A n \in 1..Len(diffs) :
             \E k \in differing : diffs[n].field_path = known[k]
       /\ \A m, n \in 1..Len(diffs) :
             m < n => PathPlace(diffs[m].field_path) < PathPlace(diffs[n].field_path)
       /\ \A j, k \in 1..Len(known) :
             j < k => SectionPlace(known[j][1]) <= SectionPlace(known[k][1])

ResolvedOfExperiment ==
    {x.ret : x \in {y \in resolve_template(templates, experiment.template_id, now) :
                       y.outcome = "ok"}}

\* the last two calls on experiment were set_override and then
\* remove_override, both for field_path
SetThenCleared(field_path) ==
    /\ Len(trail) = 2
    /\ trail[1].op = "set_override"
    /\ trail[2].op = "remove_override"
    /\ trail[1].field_path = field_path
    /\ trail[2].field_path = field_path

\* C18: with effectiveValue(path) the override when path is a key of the
\* overrides map and the resolved template's value otherwise, setOverride(path,
\* value, reason?) followed immediately by clearOverride(path) makes
\* effectiveValue(path) the resolved template's value at path and leaves the
\* effective value of every other path as it was before the setOverride.
C18_SetThenClearRestores ==
    \A field_path \in OverridePaths :
       SetThenCleared(field_path) =>
          \A resolved \in ResolvedOfExperiment :
             /\ effective_value(experiment, resolved, field_path)
                   = get_field_value(resolved, field_path).val
             /\ \A other \in OverridePaths \ {field_path} :
                   effective_value(experiment, resolved, other)
                      = effective_value(trail[1].before, resolved, other)

\* peak_temp was set and cleared on an experiment whose template is stored
\* and which had overridden peak_temp, and ar_flow with a reason, before
C18_Witness ==
    /\ SetThenCleared(<<"temperature", "peak_temp">>)
    /\ ResolvedOfExperiment # {}
    /\ <<"temperature", "peak_temp">> \in DOMAIN trail[1].before.overrides
    /\ <<"gas_flow", "ar_flow">> \in DOMAIN experiment.override_reasons
    /\ experiment.overrides[<<"gas_flow", "ar_flow">>] = 900
    /\ experiment.template_id = 2

\* C19: clearOverride(experiment, path) removes both the override and the
\* justification stored for path, leaves the overrides and justifications of
\* every other path unchanged, and changes nothing and raises no error when
\* path has no override.
C19_ClearRemovesBoth ==
    (trail # <<>> /\ trail[Len(trail)].op = "remove_override")
       => LET field_path == trail[Len(trail)].field_path
              before == trail[Len(trail)].before
          IN /\ last.outcome = "ok"
             /\ field_path \notin DOMAIN experiment.overrides
             /\ field_path \notin DOMAIN experiment.override_reasons
             /\ DOMAIN experiment.overrides = DOMAIN before.overrides \ {field_path}
             /\ DOMAIN experiment.override_reasons
                   = DOMAIN before.override_reasons \ {field_path}
             /\ \A other \in DOMAIN experiment.overrides :
                   experiment.overrides[other] = before.overrides[other]
             /\ \A other \in DOMAIN experiment.override_reasons :
                   experiment.override_reasons[other] = before.override_reasons[other]
             /\ [experiment EXCEPT !.overrides = before.overrides,
                                   !.override_reasons = before.override_reasons]
                   = before
             /\ field_path \notin DOMAIN before.overrides => experiment = before

\* a path without an override was cleared, which changed nothing, and then an
\* override with a reason was cleared while the other path kept its override
\* and reason
C19_Witness ==
    /\ Len(trail) = 2
    /\ trail[1].op = "remove_override"
    /\ trail[1].field_path \notin DOMAIN trail[1].before.overrides
    /\ trail[2].before = trail[1].before
    /\ trail[2].op = "remove_override"
    /\ trail[2].field_path = <<"gas_flow", "ar_flow">>
    /\ <<"gas_flow", "ar_flow">> \in DOMAIN trail[2].before.override_reasons
    /\ <<"temperature", "peak_temp">> \in DOMAIN experiment.override_reasons
    /\ experiment.overrides[<<"temperature", "peak_temp">>] = 750

\* C20: in every state of an experiment reached from a newly created one by
\* setOverride (with or without a reason) and clearOverride calls, every key
\* of the justification map is a key of the overrides map.
C20_ReasonsHaveOverrides ==
    DOMAIN experiment.override_reasons \subseteq DOMAIN experiment.overrides

\* an override set with a reason was set again without one: the old reason
\* stays, under a key the overrides still hold; another path has no reason
C20_Witness ==
    /\ Len(trail) = 2
    /\ trail[2].op = "set_override"
    /\ last.arg[3] = ""
    /\ trail[2].field_path \in DOMAIN trail[2].before.override_reasons
    /\ trail[2].field_path \in DOMAIN experiment.override_reasons
    /\ DOMAIN experiment.override_reasons # DOMAIN experiment.overrides

\* C30 (as claimed): delete_experiment(id) for an experiment present in the
\* experiment store always completes, with or without an images directory: it
\* removes exactly that experiment, returns true and emits exactly one deleted
\* event; for an unknown id it returns false and changes nothing.
C30_DeleteExperimentCompletes ==
    [][last'.op = "delete_experiment"
          => IF last'.arg \in DOMAIN experiments
             THEN /\ last'.outcome = "True"
                  /\ experiments' = DictDel(experiments, last'.arg)
                  /\ last'.events = <<Event("experiment_deleted", last'.arg)>>
             ELSE /\ last'.outcome = "False"
                  /\ experiments' = experiments
                  /\ last'.events = <<>>]_vars

\* C24: create never closes a cycle.  In a store whose parent references
\* contain no cycle, create without a parent or with a parentId present in the
\* store never fails with CycleDetected: it inserts exactly one template,
\* under a fresh id that no stored template names as parent, and the store
\* afterwards contains no cycle again; and create fails with CycleDetected
\* only when the walk from parentId along the parent references re-visits an
\* id.
C24_CreateClosesNoCycle ==
    [][(/\ last'.op = "create"
        /\ \E name \in CreateNames : create_template(name, last'.arg))
          => /\ (/\ Forest(templates)
                 /\ last'.arg \in {None} \cup DOMAIN templates)
                   => /\ last'.outcome = "ok"
                      /\ \E fresh \in DOMAIN templates' \ DOMAIN templates :
                            /\ DOMAIN templates' = DOMAIN templates \cup {fresh}
                            /\ templates'[fresh].parent_template_id = last'.arg
                            /\ \A id \in DOMAIN templates :
                                  /\ templates'[id] = templates[id]
                                  /\ templates[id].parent_template_id # fresh
                      /\ Forest(templates')
             /\ last'.outcome = "CycleDetected"
                   => /\ last'.arg \in DOMAIN templates
                      /\ CycleReachable(templates, last'.arg)]_vars

\* a template was created under a stored parent, in a store without a cycle
\* that an update had changed before
C24_Witness ==
    /\ Ended("create", "ok")
    /\ last.arg \in DOMAIN templates
    /\ templates[last.ret].parent_template_id = last.arg
    /\ templates[last.arg].modified_at > templates[last.arg].created_at
    /\ Forest(templates)

\* C25: in every store state reached from the empty store by create and
\* delete alone, every parent reference that is not None names a stored
\* template, so that no inheritance chain is cut short by a missing ancestor.
C25_ParentsStored ==
    \A id \in DOMAIN templates :
       /\ templates[id].parent_template_id \in {None} \cup DOMAIN templates
       /\ LET c == get_inheritance_chain(templates, id) IN
          /\ c.pc = "return"
          /\ c.chain[Len(c.chain)].parent_template_id = None

\* delete_template was asked to remove a template that a stored template
\* names as parent, and refused
C25_Witness ==
    /\ Ended("delete", "HasChildren")
    /\ last.arg \in DOMAIN templates
    /\ \E id \in DOMAIN templates : templates[id].parent_template_id = last.arg

\* C21 (as claimed): the status of an experiment only moves along planned ->
\* in_progress -> completed or failed: over any sequence of start_experiment,
\* complete_experiment and fail_experiment calls it never goes back from
\* in_progress to planned, never leaves completed or failed once reached, and
\* never reaches completed or failed directly from planned.
C21_StatusMovesForward ==
    [][\/ experiment'.status = experiment.status
       \/ experiment.status = "planned" /\ experiment'.status = "in_progress"
       \/ /\ experiment.status = "in_progress"
          /\ experiment'.status \in {"completed", "failed"}]_vars

\* the names of the reading calls
ReadOps ==
    {"resolve_template", "get_inheritance_chain", "get_effective_value",
     "diff_templates", "get_template", "list_templates", "get_root_templates",
     "get_children"}

\* C27: resolve, getInheritanceChain, getEffectiveValue, diff, get, listAll,
\* listRoots and listChildren never change the store (the stored ids and
\* every field of every stored template are the same after the call as
\* before) and emit no event, whether the call succeeds or fails with
\* NotFound or CircularInheritance.
C27_ReadsChangeNothing ==
    [][last'.op \in ReadOps
          => /\ templates' = templates
             /\ last'.events = <<>>
             /\ last'.outcome \in {"ok", "NotFound", "CircularInheritance"}]_vars

\* a template whose sections, custom fields and tags differ from its stored
\* parent's was resolved, and the objects of the two are as before
C27_Witness ==
    /\ Ended("resolve_template", "ok")
    /\ LET X == templates[last.arg] IN
       /\ X.parent_template_id \in DOMAIN templates \ {X.id}
       /\ X.custom_fields # templates[X.parent_template_id].custom_fields
       /\ last.ret.custom_fields # X.custom_fields
       /\ last.ret.tags # X.tags

\* C26 (as claimed): in every store state reached through create, update and
\* delete, the tree built from listRoots() by expanding listChildren(id)
\* recursively holds every stored template exactly once.
C26_TreeHoldsEveryTemplateOnce ==
    \A id \in DOMAIN templates :
       Cardinality({item \in refresh_tree(templates) : item[Len(item)] = id}) = 1

\* the slots connected to the template signals ran during the step just taken
Emitted == seen # <<>>

\* C28: every step of the template store that emits runs the connected slots
\* on the store as the step leaves it: the step emitted exactly one event,
\* for a created or modified event the slot's get_template(id) is the entity
\* the call stored (under an id not stored before and created at the time of
\* the call for created, stamped with the time of the call for modified), for
\* a deleted event it is absent,
\* and the tree the slot builds is the tree of the store after the step
C28_SlotsSeeTheMutation ==
    [][seen' # <<>> =>
         /\ seen' = <<templates'>>
         /\ Len(last'.events) = 1
         /\ LET ev == last'.events[1]
                id == ev.id
                S  == seen'[1]
            IN  /\ ev.topic \in {"template_created", "template_modified",
                                 "template_deleted"}
                /\ ev.topic = "template_created" =>
                       /\ id \notin DOMAIN templates
                       /\ get_template(S, id) = id
                       /\ S[id] = templates'[id]
                       /\ S[id].created_at = now
                /\ ev.topic = "template_modified" =>
                       /\ id \in DOMAIN templates
                       /\ get_template(S, id) = id
                       /\ S[id] = templates'[id]
                       /\ S[id].modified_at = now
                /\ ev.topic = "template_deleted" =>
                       /\ id \in DOMAIN templates
                       /\ get_template(S, id) = None
                /\ refresh_tree(S) = refresh_tree(templates')]_vars

\* a template with a child was modified, then a childless template deleted:
\* the slots ran on the store without it
C28_Witness ==
    /\ Ended("delete", "True")
    /\ Emitted
    /\ last.arg \notin DOMAIN seen[1]
    /\ \E id \in DOMAIN seen[1] : seen[1][id].modified_at > seen[1][id].created_at

\* the template the experiment stored under id is based on is not stored
Dangling(id) ==
    /\ id \in DOMAIN experiments
    /\ experiments[id].template_id \notin DOMAIN templates

\* C22: a delete of a stored template no template inherits from succeeds and
\* changes no experiment, whether experiments are based on it or not; and
\* load_experiment of an experiment whose template is not stored, and a
\* parameter change of one, show "(template not found)" and raise nothing
C22_DanglingReferencesTolerated ==
    [][/\ (/\ last'.op = "delete"
           /\ last'.arg \in DOMAIN templates
           /\ \A t \in DOMAIN templates :
                 templates[t].parent_template_id # last'.arg)
          => /\ last'.outcome = "True"
             /\ last'.arg \notin DOMAIN templates'
             /\ experiments' = experiments
       /\ (last'.op = "load_experiment" /\ Dangling(last'.arg))
          => /\ last'.outcome = "ok"
             /\ view'.template_name_label = "(template not found)"
       /\ (/\ last'.op = "_on_param_changed"
           /\ view.current_experiment # None
           /\ Dangling(view.current_experiment))
          => last'.outcome = "ok"]_vars

\* C23: whenever the store was saved and the file loaded into an empty store,
\* both calls ended without an error, the loaded store has the ids of the
\* saved one, and each loaded template is equal to the saved one
C23_RoundTrip ==
    last.op = "save_load" =>
       /\ last.outcome = "ok"
       /\ DOMAIN last.ret = DOMAIN templates
       /\ \A id \in DOMAIN templates : py_eq(last.ret[id], templates[id])

\* the known paths, as a set
KnownPaths == {get_all_field_paths[i] : i \in 1..Len(get_all_field_paths)}

\* no part of the path names an attribute or a key where the accessor looks
\* for it
NoMatch(obj, path) ==
    \/ path[1] \notin DOMAIN obj
    \/ /\ Len(path) = 2
       /\ LET current == GetPart(Obj("RecipeTemplate", obj), path[1]) IN
          \/ current.kind \notin {"dataclass", "dict"}
          \/ /\ path[2] \notin DOMAIN current.val
             /\ ~(current.kind = "dict" /\ path[2] \in DictMethods)

\* C29: _set_field_value of a known path or of a custom_fields.<key> path
\* returns True, _get_field_value of the path then returns the value set and
\* the value at every other known path is as before; a _set_field_value that
\* returns False leaves the template as it was; and _get_field_value of a
\* path that names no attribute and no key returns None, raising nothing
C29_FieldAccess ==
    [][/\ (/\ last'.op = "_set_field_value"
           /\ \/ last'.arg.path \in KnownPaths
              \/ last'.arg.path[1] = "custom_fields" /\ Len(last'.arg.path) = 2)
          => /\ last'.outcome = "True"
             /\ get_field_value(templates'[1], last'.arg.path).val
                  = last'.arg.value
             /\ \A q \in KnownPaths \ {last'.arg.path} :
                   get_field_value(templates'[1], q)
                     = get_field_value(templates[1], q)
       /\ (last'.op = "_set_field_value" /\ last'.outcome = "False")
          => templates' = templates
       /\ (/\ last'.op = "_get_field_value"
           /\ NoMatch(templates[1], last'.arg.path))
          => last'.outcome = "ok" /\ last'.ret = NoneObj]_vars

=============================================================================
